---- MODULE Spec2Model ----
(***************************************************************************)
(* Model of the rig normalisation pipeline of rigging_bridge:              *)
(*   - RigDetector (bridge/rig_detector.py): signature confidence and      *)
(*     rig classification;                                                 *)
(*   - RigInteropBridge (bridge/orchestrator.py): the convert pipeline     *)
(*     and validate_conversion.                                            *)
(*                                                                         *)
(* Confidences are Python floats 0.6 + 0.4 * (k / n).  They are held here  *)
(* as integers in units of 1/ConfScale; for every n in 1..8 and k in 0..n  *)
(* the float result compares with 0.6, 0.7, 0.8, 0.9 and 1.0 exactly as    *)
(* the rational does, so the scaled integer decides every comparison the   *)
(* code makes the way the float does.                                      *)
(***************************************************************************)
EXTENDS Integers, Sequences, FiniteSets, TLC

VARIABLES
    bone_names,     \* detector input: the joint-name set handed to the detector
    sig_in,         \* detector input: the signature handed to _calculate_confidence
    conf_out,       \* detector output: result of _calculate_confidence (-1: not run)
    detection,      \* detector output: RigMetadata of detect_from_bone_list
    det_pc,         \* detector position: "idle" | "input" | "scored" | "detected"
    job,            \* arguments of one convert call: options, objects, output path
    scene,          \* the backend scene the pipeline mutates
    pc,             \* position of convert
    result,         \* the ConversionResult of the run
    locals,         \* local variables of convert
    trace,          \* steps of convert that have started, in order
    exc,            \* the exception in flight, how often it was caught, what escaped
    validation,     \* outcome of validate_conversion(result)
    matcher,        \* capture_positions, create_mapping, adjust_to_match and the
                    \* restore of the pose reset, called one after the other
    xfer,           \* one call of transfer_weights on a mesh
    redist,         \* one call of redistribute_weights on a mesh
    service         \* the conversion service: its jobs, their temporary
                    \* directories and the artifact stores

detVars == <<bone_names, sig_in, conf_out, detection, det_pc>>

runVars == <<job, scene, pc, result, locals, trace, exc>>

unitVars == <<matcher, xfer, redist, service>>

vars == <<detVars, runVars, validation, unitVars>>

-----------------------------------------------------------------------------
(* Bounds of the model *)

\* Largest number of position errors validate_adjustment reports in a run.
MaxPosErrors == 1

\* Largest number of canonical joints of a correspondence handed to
\* validate_conversion.
MaxCanonicalJoints == 10

\* Number of joints outside every signature that a name set may carry.
MaxExtraBones == 1

\* Largest coordinate of a joint or a vertex of a mesh under weight transfer.
MaxCoordinate == 2

\* Largest number of vertices of a mesh under weight transfer.
MaxVertices == 2

-----------------------------------------------------------------------------
(* types.py *)

RigType == {"arp", "cc3", "cc4", "mixamo", "vrm", "metahuman", "ue5_mannequin", "unknown"}

RestPose == {"t_pose", "a_pose", "custom"}

RigMetadata(rt, rp, n, c, bones) ==
    [rig_type |-> rt, rest_pose |-> rp, bone_count |-> n, confidence |-> c,
     detected_bones |-> bones]

-----------------------------------------------------------------------------
(* rig_detector.py *)

\* 1.0 in confidence units; 0.6 is ConfBase, 0.4 is ConfBonus.
ConfScale == 600
ConfBase  == 360
ConfBonus == 240

\* Declaration order of the keys of RIG_SIGNATURES (dict iteration order).
RigOrder == <<"arp", "cc3", "cc4", "mixamo", "vrm", "metahuman", "ue5_mannequin">>

RIG_SIGNATURES ==
    [t \in {RigOrder[i] : i \in 1..Len(RigOrder)} |->
        CASE t = "arp" ->
               [required_bones |-> <<"root.x", "spine_01.x", "spine_02.x", "spine_03.x">>,
                pattern_bones  |-> <<"c_traj", "arm_stretch", "forearm_stretch", "thigh_stretch">>,
                min_confidence |-> 420]
          [] t = "cc3" ->
               [required_bones |-> <<"CC_Base_Hip", "CC_Base_Spine01">>,
                pattern_bones  |-> <<"CC_Base_L_Upperarm", "CC_Base_R_Upperarm">>,
                min_confidence |-> 480]
          [] t = "cc4" ->
               [required_bones |-> <<"CC_Base_Hips", "CC_Base_Spine01">>,
                pattern_bones  |-> <<"CC_Base_L_Upperarm", "CC_Base_R_Upperarm">>,
                min_confidence |-> 480]
          [] t = "mixamo" ->
               [required_bones |-> <<"Hips", "Spine">>,
                pattern_bones  |-> <<"LeftUpLeg", "RightUpLeg", "LeftArm", "RightArm">>,
                min_confidence |-> 360]
          [] t = "vrm" ->
               [required_bones |-> <<"J_Bip_C_Hips">>,
                pattern_bones  |-> <<"J_Bip_L_UpperArm", "J_Bip_R_UpperArm">>,
                min_confidence |-> 420]
          [] t = "metahuman" ->
               [required_bones |-> <<"pelvis", "spine_01", "spine_02">>,
                pattern_bones  |-> <<"FACIAL_C_FacialRoot", "neck_01", "head">>,
                min_confidence |-> 480]
          [] t = "ue5_mannequin" ->
               [required_bones |-> <<"pelvis", "spine_01", "clavicle_l", "clavicle_r">>,
                pattern_bones  |-> <<"thigh_l", "thigh_r", "upperarm_l", "upperarm_r">>,
                min_confidence |-> 480]]

SeqSet(s) == {s[i] : i \in 1..Len(s)}

\* sum(1 for bone in lst if bone in bone_names)
CountFound(lst, names) == Cardinality({i \in 1..Len(lst) : lst[i] \in names})

\* A plausible slip: a signature counts as present as soon as one required
\* joint is found.
CalculateConfidenceAnyRequired(names, signature) ==
    LET required == signature.required_bones
        patterns == signature.pattern_bones
    IN  IF CountFound(required, names) = 0 /\ Len(required) > 0
        THEN 0
        ELSE ConfBase + (IF Len(patterns) > 0
                         THEN (ConfBonus * CountFound(patterns, names)) \div Len(patterns)
                         ELSE 0)

\* RigDetector._calculate_confidence
CalculateConfidence(names, signature) ==
    LET required       == signature.required_bones
        patterns       == signature.pattern_bones
        required_found == CountFound(required, names)
        pattern_found  == CountFound(patterns, names)
    IN  IF required_found < Len(required)
        THEN 0
        ELSE ConfBase + (IF Len(patterns) > 0
                         THEN (ConfBonus * pattern_found) \div Len(patterns)
                         ELSE 0)

\* A plausible slip: every signature with a non-zero score is kept, whatever
\* its min_confidence.
RECURSIVE DetectionsFromNoThreshold(_, _)
DetectionsFromNoThreshold(i, names) ==
    IF i > Len(RigOrder) THEN <<>>
    ELSE LET t == RigOrder[i]
             c == CalculateConfidence(names, RIG_SIGNATURES[t])
         IN  (IF c > 0
              THEN <<[rig_type |-> t, confidence |-> c]>>
              ELSE <<>>) \o DetectionsFromNoThreshold(i + 1, names)

\* The loop over RIG_SIGNATURES.items(): qualifying (rig_type, confidence)
\* pairs in declaration order.
RECURSIVE DetectionsFrom(_, _)
DetectionsFrom(i, names) ==
    IF i > Len(RigOrder) THEN <<>>
    ELSE LET t == RigOrder[i]
             c == CalculateConfidence(names, RIG_SIGNATURES[t])
         IN  (IF c >= RIG_SIGNATURES[t].min_confidence
              THEN <<[rig_type |-> t, confidence |-> c]>>
              ELSE <<>>) \o DetectionsFrom(i + 1, names)

Detections(names) == DetectionsFrom(1, names)

\* A plausible slip: an unstable ordering that puts the later of two equal
\* detections first.
InsertPosUnstable(sorted, x) ==
    1 + Cardinality({j \in 1..Len(sorted) : sorted[j].confidence > x.confidence})

\* Position at which x enters a list already sorted by descending
\* confidence: behind every element that is not smaller (stable).
InsertPos(sorted, x) ==
    1 + Cardinality({j \in 1..Len(sorted) : sorted[j].confidence >= x.confidence})

InsertAt(s, p, x) == SubSeq(s, 1, p - 1) \o <<x>> \o SubSeq(s, p, Len(s))

\* detections.sort(key=lambda x: x[1], reverse=True): a stable sort.
RECURSIVE SortDetections(_)
SortDetections(s) ==
    IF Len(s) = 0 THEN <<>>
    ELSE LET front == SortDetections(SubSeq(s, 1, Len(s) - 1))
             x     == s[Len(s)]
         IN  InsertAt(front, InsertPos(front, x), x)

\* RigDetector._detect_rest_pose: pose_defaults.get(rig_type, CUSTOM)
DetectRestPose(rig_type) ==
    CASE rig_type \in {"arp", "cc3", "cc4", "vrm", "metahuman"} -> "a_pose"
      [] rig_type \in {"mixamo", "ue5_mannequin"}               -> "t_pose"
      [] OTHER                                                  -> "custom"

\* if detections: detections[0] else (UNKNOWN, 0.0)
PickDetection(sorted) ==
    IF Len(sorted) > 0 THEN sorted[1]
    ELSE [rig_type |-> "unknown", confidence |-> 0]

\* RigDetector.detect_from_bone_list (the name list is held as its set)
DetectFromBoneList(names) ==
    LET d == PickDetection(SortDetections(Detections(names)))
    IN  RigMetadata(d.rig_type, "custom", Cardinality(names), d.confidence, names)

\* RigDetector.detect, past its guards
Detect(names) ==
    LET d == PickDetection(SortDetections(Detections(names)))
    IN  RigMetadata(d.rig_type,
                    IF d.rig_type = "unknown" THEN "custom" ELSE DetectRestPose(d.rig_type),
                    Cardinality(names), d.confidence, names)

-----------------------------------------------------------------------------
(* joint_matcher.py *)

\* Python's Optional values are held as sequences of length 0 (None) or 1.
None == <<>>

Some(x) == <<x>>

\* An insertion-ordered dict of JointPosition is held as the sequence of its
\* entries [name, position]; Keys is its key set.
Keys(d) == {d[i].name : i \in 1..Len(d)}

Lookup(d, k) == d[CHOOSE i \in 1..Len(d) : d[i].name = k]

\* JointMatcher.BONE_MAPPINGS, each table in declaration order.
\* A plausible slip: every rig type has a table, the types without one of
\* their own sharing a table of hip-joint names.
BONE_MAPPINGS_EveryType ==
    [t \in RigType |->
        << [canonical |-> "pelvis",
            patterns  |-> <<"Hips", "CC_Base_Hip", "root.x", "J_Bip_C_Hips", "pelvis",
                            "Bone.001">>] >>]

BONE_MAPPINGS ==
    [t \in {"arp", "cc3", "cc4", "mixamo"} |->
        CASE t = "arp" ->
               << [canonical |-> "pelvis",     patterns |-> <<"root.x">>],
                  [canonical |-> "spine_01",   patterns |-> <<"spine_01.x">>],
                  [canonical |-> "spine_02",   patterns |-> <<"spine_02.x">>],
                  [canonical |-> "spine_03",   patterns |-> <<"spine_03.x">>],
                  [canonical |-> "clavicle_l", patterns |-> <<"shoulder.l">>],
                  [canonical |-> "clavicle_r", patterns |-> <<"shoulder.r">>],
                  [canonical |-> "upperarm_l", patterns |-> <<"arm_stretch.l">>],
                  [canonical |-> "upperarm_r", patterns |-> <<"arm_stretch.r">>],
                  [canonical |-> "lowerarm_l", patterns |-> <<"forearm_stretch.l">>],
                  [canonical |-> "lowerarm_r", patterns |-> <<"forearm_stretch.r">>],
                  [canonical |-> "hand_l",     patterns |-> <<"hand.l">>],
                  [canonical |-> "hand_r",     patterns |-> <<"hand.r">>],
                  [canonical |-> "thigh_l",    patterns |-> <<"thigh_stretch.l">>],
                  [canonical |-> "thigh_r",    patterns |-> <<"thigh_stretch.r">>],
                  [canonical |-> "calf_l",     patterns |-> <<"leg_stretch.l">>],
                  [canonical |-> "calf_r",     patterns |-> <<"leg_stretch.r">>],
                  [canonical |-> "foot_l",     patterns |-> <<"foot.l">>],
                  [canonical |-> "foot_r",     patterns |-> <<"foot.r">>],
                  [canonical |-> "neck_01",    patterns |-> <<"neck.x">>],
                  [canonical |-> "head",       patterns |-> <<"head.x">>] >>
          [] t = "cc3" ->
               << [canonical |-> "pelvis",     patterns |-> <<"CC_Base_Hip", "CC_Base_Hips">>],
                  [canonical |-> "spine_01",   patterns |-> <<"CC_Base_Spine01">>],
                  [canonical |-> "spine_02",   patterns |-> <<"CC_Base_Spine02">>],
                  [canonical |-> "upperarm_l", patterns |-> <<"CC_Base_L_Upperarm">>],
                  [canonical |-> "upperarm_r", patterns |-> <<"CC_Base_R_Upperarm">>],
                  [canonical |-> "lowerarm_l", patterns |-> <<"CC_Base_L_Forearm">>],
                  [canonical |-> "lowerarm_r", patterns |-> <<"CC_Base_R_Forearm">>],
                  [canonical |-> "hand_l",     patterns |-> <<"CC_Base_L_Hand">>],
                  [canonical |-> "hand_r",     patterns |-> <<"CC_Base_R_Hand">>],
                  [canonical |-> "thigh_l",    patterns |-> <<"CC_Base_L_Thigh">>],
                  [canonical |-> "thigh_r",    patterns |-> <<"CC_Base_R_Thigh">>],
                  [canonical |-> "calf_l",     patterns |-> <<"CC_Base_L_Calf">>],
                  [canonical |-> "calf_r",     patterns |-> <<"CC_Base_R_Calf">>],
                  [canonical |-> "foot_l",     patterns |-> <<"CC_Base_L_Foot">>],
                  [canonical |-> "foot_r",     patterns |-> <<"CC_Base_R_Foot">>],
                  [canonical |-> "neck_01",    patterns |-> <<"CC_Base_NeckTwist01">>],
                  [canonical |-> "head",       patterns |-> <<"CC_Base_Head">>] >>
          [] t = "cc4" ->
               << [canonical |-> "pelvis",     patterns |-> <<"CC_Base_Hips">>],
                  [canonical |-> "spine_01",   patterns |-> <<"CC_Base_Spine01">>],
                  [canonical |-> "upperarm_l", patterns |-> <<"CC_Base_L_Upperarm">>],
                  [canonical |-> "upperarm_r", patterns |-> <<"CC_Base_R_Upperarm">>] >>
          [] t = "mixamo" ->
               << [canonical |-> "pelvis",     patterns |-> <<"Hips">>],
                  [canonical |-> "spine_01",   patterns |-> <<"Spine">>],
                  [canonical |-> "spine_02",   patterns |-> <<"Spine1">>],
                  [canonical |-> "spine_03",   patterns |-> <<"Spine2">>],
                  [canonical |-> "upperarm_l", patterns |-> <<"LeftArm">>],
                  [canonical |-> "upperarm_r", patterns |-> <<"RightArm">>],
                  [canonical |-> "lowerarm_l", patterns |-> <<"LeftForeArm">>],
                  [canonical |-> "lowerarm_r", patterns |-> <<"RightForeArm">>],
                  [canonical |-> "hand_l",     patterns |-> <<"LeftHand">>],
                  [canonical |-> "hand_r",     patterns |-> <<"RightHand">>],
                  [canonical |-> "thigh_l",    patterns |-> <<"LeftUpLeg">>],
                  [canonical |-> "thigh_r",    patterns |-> <<"RightUpLeg">>],
                  [canonical |-> "calf_l",     patterns |-> <<"LeftLeg">>],
                  [canonical |-> "calf_r",     patterns |-> <<"RightLeg">>],
                  [canonical |-> "foot_l",     patterns |-> <<"LeftFoot">>],
                  [canonical |-> "foot_r",     patterns |-> <<"RightFoot">>],
                  [canonical |-> "neck_01",    patterns |-> <<"Neck">>],
                  [canonical |-> "head",       patterns |-> <<"Head">>] >>]

\* JointMatcher.capture_positions, past its guards: one entry per bone, in
\* bone order, carrying the bone's world-space head.
CapturePositions(armature) ==
    [i \in 1..Len(armature.bones) |->
        [name |-> armature.bones[i], position |-> armature.heads[armature.bones[i]]]]

\* A plausible slip: the loop over the candidate patterns has no break, so
\* the last pattern present wins.
LastMatch(patterns, source_positions) ==
    LET hits == {i \in 1..Len(patterns) : patterns[i] \in Keys(source_positions)}
    IN  IF hits = {} THEN 0 ELSE CHOOSE i \in hits : \A j \in hits : i >= j

\* Index of the first candidate pattern present in the source, 0 if none.
FirstMatch(patterns, source_positions) ==
    LET hits == {i \in 1..Len(patterns) : patterns[i] \in Keys(source_positions)}
    IN  IF hits = {} THEN 0 ELSE CHOOSE i \in hits : \A j \in hits : i <= j

\* A plausible slip: `matched = True` is missing, so every canonical joint of
\* the table is also reported unmapped.
CreateMappingNeverMatched(source_positions, rig_type) ==
    LET mapping == BONE_MAPPINGS[rig_type]
        Hit(e)  == FirstMatch(e.patterns, source_positions) > 0
        Target(e) ==
            [name     |-> e.canonical,
             position |-> Lookup(source_positions,
                                 e.patterns[FirstMatch(e.patterns, source_positions)]).position]
        matched   == SelectSeq(mapping, Hit)
        mapped_source_bones ==
            UNION {SeqSet(mapping[i].patterns) : i \in 1..Len(mapping)}
        Unmapped(sp) == sp.name \notin mapped_source_bones
        left_over == SelectSeq(source_positions, Unmapped)
    IN  [source_positions |-> source_positions,
         target_positions |-> [i \in 1..Len(matched) |-> Target(matched[i])],
         unmapped_source  |-> [i \in 1..Len(left_over) |-> left_over[i].name],
         unmapped_target  |-> [i \in 1..Len(mapping) |-> mapping[i].canonical]]

\* JointMatcher.create_mapping, past its guard
CreateMapping(source_positions, rig_type) ==
    LET mapping == BONE_MAPPINGS[rig_type]
        Hit(e)  == FirstMatch(e.patterns, source_positions) > 0
        Miss(e) == ~Hit(e)
        Target(e) ==
            [name     |-> e.canonical,
             position |-> Lookup(source_positions,
                                 e.patterns[FirstMatch(e.patterns, source_positions)]).position]
        matched   == SelectSeq(mapping, Hit)
        unmatched == SelectSeq(mapping, Miss)
        mapped_source_bones ==
            UNION {SeqSet(mapping[i].patterns) : i \in 1..Len(mapping)}
        Unmapped(sp) == sp.name \notin mapped_source_bones
        left_over == SelectSeq(source_positions, Unmapped)
    IN  [source_positions |-> source_positions,
         target_positions |-> [i \in 1..Len(matched) |-> Target(matched[i])],
         unmapped_source  |-> [i \in 1..Len(left_over) |-> left_over[i].name],
         unmapped_target  |-> [i \in 1..Len(unmatched) |-> unmatched[i].canonical]]

-----------------------------------------------------------------------------
(* skeleton_adjuster.py, pose_reset.py: effects on the canonical skeleton *)

\* CanonicalSkeletonAdjuster.adjust_to_match, past its guards: the saved
\* heads of the joints present in both the mapping and the skeleton.
AdjustOriginals(armature_bones, heads, joint_mapping) ==
    LET tp      == joint_mapping.target_positions
        Live(e) == e.name \in SeqSet(armature_bones)
        both    == SelectSeq(tp, Live)
    IN  [i \in 1..Len(both) |-> [name |-> both[i].name, position |-> heads[both[i].name]]]

\* ... and the heads after the adjustment.
AdjustHeads(armature_bones, heads, joint_mapping) ==
    LET tp == joint_mapping.target_positions
    IN  [b \in DOMAIN heads |->
            IF b \in Keys(tp) /\ b \in SeqSet(armature_bones)
            THEN Lookup(tp, b).position ELSE heads[b]]

\* PoseReset._restore_exact_positions: heads after the restore.
RestoreHeads(armature_bones, heads, original_positions) ==
    [b \in DOMAIN heads |->
        IF b \in Keys(original_positions) /\ b \in SeqSet(armature_bones)
        THEN Lookup(original_positions, b).position ELSE heads[b]]

\* Positions are coordinates along one axis: Vector.length is Abs, and
\* Vector.normalized() is Sign (the zero vector normalises to itself).
Abs(x) == IF x < 0 THEN -x ELSE x

Sign(x) == IF x < 0 THEN -1 ELSE IF x > 0 THEN 1 ELSE 0

\* adjust_to_match: the tails after the adjustment.  The tail keeps the
\* bone's former length, along the direction from the new head to the old
\* tail.
AdjustTails(armature_bones, heads, tails, joint_mapping) ==
    LET tp == joint_mapping.target_positions
    IN  [b \in DOMAIN tails |->
            IF b \in Keys(tp) /\ b \in SeqSet(armature_bones)
            THEN LET new_head        == Lookup(tp, b).position
                     original_length == Abs(tails[b] - heads[b])
                     bone_direction  == Sign(tails[b] - new_head)
                 IN  new_head + bone_direction * original_length
            ELSE tails[b]]

\* A plausible slip: the restore moves the head and leaves the tail.
RestoreTailsNoOffset(armature_bones, heads, tails, original_positions) == tails

\* PoseReset._restore_exact_positions: tails after the restore
\* (offset = original_pos - current_head; bone.tail = bone.tail + offset).
RestoreTails(armature_bones, heads, tails, original_positions) ==
    [b \in DOMAIN tails |->
        IF b \in Keys(original_positions) /\ b \in SeqSet(armature_bones)
        THEN tails[b] + (Lookup(original_positions, b).position - heads[b])
        ELSE tails[b]]

\* PoseReset.reset_to_rest_pose: `if original_positions` is false for None
\* and for an empty dict alike.
ResetBranch(original_positions) ==
    IF original_positions # None /\ Len(original_positions[1]) > 0
    THEN "restore" ELSE "canned"

-----------------------------------------------------------------------------
(* weight_transfer.py: transfer_weights *)

\* mesh.vertex_groups is held as the sequence of the groups' names, a group
\* being its index; a vertex is [co, groups], groups being the indices of
\* the groups that hold a weight for it.

\* stats = {"vertex_groups_created": 0, "vertex_groups_renamed": 0, "warnings": []}
NewStats == [vertex_groups_created |-> 0, vertex_groups_renamed |-> 0, warnings |-> <<>>]

\* The inner loop of the reverse map: index of the first entry of
\* source_positions whose position equals pos, 0 if there is none.
FirstSourceAt(source_positions, pos) ==
    LET hits == {i \in 1..Len(source_positions) : source_positions[i].position = pos}
    IN  IF hits = {} THEN 0 ELSE CHOOSE i \in hits : \A j \in hits : i <= j

\* name_map of _transfer_by_name: source joint name -> canonical joint name.
\* A source name written twice keeps the canonical name written last.
NameMap(joint_mapping) ==
    LET sp     == joint_mapping.source_positions
        tp     == joint_mapping.target_positions
        Src(i) == FirstSourceAt(sp, tp[i].position)
        found  == {i \in 1..Len(tp) : Src(i) > 0}
    IN  [s \in {sp[Src(i)].name : i \in found} |->
            tp[CHOOSE i \in found :
                  /\ sp[Src(i)].name = s
                  /\ \A j \in found : sp[Src(j)].name = s => j <= i].name]

\* The loop `for vgroup in source_mesh.vertex_groups` of _transfer_by_name,
\* from group i on.
RECURSIVE RenameFrom(_, _, _, _)
RenameFrom(i, groups, name_map, stats) ==
    IF i > Len(groups) THEN [vertex_groups |-> groups, stats |-> stats]
    ELSE IF groups[i] \notin DOMAIN name_map
    THEN RenameFrom(i + 1, groups, name_map, stats)
    ELSE LET new_name == name_map[groups[i]]
         IN  IF new_name \notin SeqSet(groups)
             THEN RenameFrom(i + 1, [groups EXCEPT ![i] = new_name], name_map,
                             [stats EXCEPT !.vertex_groups_renamed = @ + 1])
             ELSE RenameFrom(i + 1, groups, name_map,
                             [stats EXCEPT !.warnings =
                                 Append(@, [kind |-> "already exists", group |-> new_name])])

\* WeightTransfer._transfer_by_name
TransferByName(groups, joint_mapping, stats) ==
    RenameFrom(1, groups, NameMap(joint_mapping), stats)

\* kd.find(world_pos): the indices of the target positions nearest to co;
\* which of several equally near ones the tree returns is not fixed.
Nearest(target_positions, co) ==
    {i \in 1..Len(target_positions) :
        \A j \in 1..Len(target_positions) :
            Abs(target_positions[i].position - co) <= Abs(target_positions[j].position - co)}

\* A plausible slip: the group is created without looking at the groups the
\* mesh already has.
ShouldCreateGroupUnchecked(has_weight, bone_name, groups) == ~has_weight

\* if not has_weight and bone_name not in [g.name for g in source_mesh.vertex_groups]
ShouldCreateGroup(has_weight, bone_name, groups) ==
    ~has_weight /\ bone_name \notin SeqSet(groups)

\* The loop `for vertex in source_mesh.data.vertices` of
\* _transfer_by_proximity, from vertex v on; found[v] is the index kd.find
\* returned for vertex v (0: None).
RECURSIVE ProximityFrom(_, _, _, _, _, _)
ProximityFrom(v, vertices, found, groups, target_positions, stats) ==
    IF v > Len(vertices) THEN [vertex_groups |-> groups, stats |-> stats]
    ELSE IF found[v] = 0
    THEN ProximityFrom(v + 1, vertices, found, groups, target_positions, stats)
    ELSE LET bone_name  == target_positions[found[v]].name
             has_weight == \E g \in vertices[v].groups : groups[g] = bone_name
         IN  IF ShouldCreateGroup(has_weight, bone_name, groups)
             THEN ProximityFrom(v + 1, vertices, found, Append(groups, bone_name),
                                target_positions,
                                [stats EXCEPT !.vertex_groups_created = @ + 1])
             ELSE ProximityFrom(v + 1, vertices, found, groups, target_positions, stats)

\* A plausible slip: a group is created for every joint of the mapping the
\* mesh has no group for, not only for the joints nearest to a vertex.
TransferByProximityEveryJoint(vertices, found, groups, joint_mapping, stats) ==
    LET tp      == joint_mapping.target_positions
        New(e)  == e.name \notin SeqSet(groups)
        missing == IF Len(vertices) = 0 THEN <<>> ELSE SelectSeq(tp, New)
    IN  [vertex_groups |-> groups \o [i \in 1..Len(missing) |-> missing[i].name],
         stats |-> [stats EXCEPT !.vertex_groups_created = @ + Len(missing)]]

\* WeightTransfer._transfer_by_proximity
TransferByProximity(vertices, found, groups, joint_mapping, stats) ==
    ProximityFrom(1, vertices, found, groups, joint_mapping.target_positions, stats)

-----------------------------------------------------------------------------
(* weight_transfer.py: redistribute_weights *)

\* The arithmetic of redistribute_weights is Python float arithmetic.  A
\* positive float is held by its decimal exponent: distances are powers of
\* ten 10^k and the falloff exponent e is a whole number, so dist ** e is
\* 10^(k * e).  A double holds 10^p for p in MinDecade..MaxDecade; below,
\* pow() returns 0.0, above, it raises OverflowError; a quotient above the
\* range is inf.
MaxDecade == 308

MinDecade == -323

\* `dist > 0.001`: 10^k > 0.001 exactly when k > CutoffDecade.
CutoffDecade == -3

\* The raw weight 1e10 of a distance at or below the cutoff.
NearZeroDecade == 10

\* Digits kept of a normalised weight: a raw weight more than Precision
\* decades below the largest one counts as 0 in the quotient w / total_weight
\* (it is below 1e-8 of the total).
Precision == 8

RECURSIVE Pow10(_)
Pow10(n) == IF n = 0 THEN 1 ELSE 10 * Pow10(n - 1)

\* A weight is a fraction num / den; nan is the float nan.
Weight(num, den) == [num |-> num, den |-> den]

NaN == [num |-> 0, den |-> 0]

\* 1.0 / (dist ** falloff_exponent) if dist > 0.001 else 1e10, for
\* dist = 10^k: a finite float, inf, or the exception raised.
RawWeight(k, falloff_exponent) ==
    IF k <= CutoffDecade THEN [kind |-> "finite", decade |-> NearZeroDecade]
    ELSE LET p == k * falloff_exponent
         IN  IF p > MaxDecade THEN [kind |-> "OverflowError", decade |-> 0]
             ELSE IF p < MinDecade THEN [kind |-> "ZeroDivisionError", decade |-> 0]
             ELSE IF -p > MaxDecade THEN [kind |-> "inf", decade |-> 0]
             ELSE [kind |-> "finite", decade |-> -p]

RECURSIVE SumSeq(_)
SumSeq(s) == IF Len(s) = 0 THEN 0 ELSE s[1] + SumSeq(Tail(s))

\* total_weight = sum(raw_weights); [w / total_weight for w in raw_weights],
\* for raw weights that are finite or inf.  With an inf among them the
\* total is inf: inf / inf is nan and a finite weight over inf is 0.0.
NormalizedWeights(raw_weights) ==
    IF \E i \in 1..Len(raw_weights) : raw_weights[i].kind = "inf"
    THEN [i \in 1..Len(raw_weights) |->
             IF raw_weights[i].kind = "inf" THEN NaN ELSE Weight(0, 1)]
    ELSE LET top == CHOOSE m \in {raw_weights[i].decade : i \in 1..Len(raw_weights)} :
                       \A i \in 1..Len(raw_weights) : raw_weights[i].decade <= m
             Rel(i) == IF top - raw_weights[i].decade > Precision THEN 0
                       ELSE Pow10(Precision - (top - raw_weights[i].decade))
             total == SumSeq([i \in 1..Len(raw_weights) |-> Rel(i)])
         IN  [i \in 1..Len(raw_weights) |-> Weight(Rel(i), total)]

\* A plausible slip: the weight is added to the one the vertex has.
AssignWeightAdd(weights, bone_name, weight) ==
    [g \in DOMAIN weights \cup {bone_name} |->
        IF g # bone_name THEN weights[g]
        ELSE IF g \notin DOMAIN weights THEN weight
        ELSE IF weight = NaN \/ weights[g] = NaN THEN NaN
        ELSE Weight(weights[g].num * weight.den + weight.num * weights[g].den,
                    weights[g].den * weight.den)]

\* vgroup.add([vertex.index], weight, "REPLACE")
AssignWeight(weights, bone_name, weight) ==
    [g \in DOMAIN weights \cup {bone_name} |->
        IF g = bone_name THEN weight ELSE weights[g]]

\* The loop `for bone_name, weight in zip(bone_chain, normalized_weights)`,
\* from pair i on.
RECURSIVE AssignFrom(_, _, _, _)
AssignFrom(i, weights, bone_chain, normalized_weights) ==
    IF i > Len(bone_chain) \/ i > Len(normalized_weights) THEN weights
    ELSE AssignFrom(i + 1, AssignWeight(weights, bone_chain[i], normalized_weights[i]),
                    bone_chain, normalized_weights)

\* The body of the loop over the vertices for one vertex.  present is the
\* chain's joints that the armature has, in chain order (bone_positions);
\* the first raw weight that cannot be computed raises.
RedistributeVertex(vertex, bone_chain, present, falloff_exponent) ==
    LET raw_weights ==
            [i \in 1..Len(present) |-> RawWeight(vertex.dist[present[i]], falloff_exponent)]
        failing == {i \in 1..Len(present) :
                       raw_weights[i].kind \in {"OverflowError", "ZeroDivisionError"}}
    IN  IF failing # {}
        THEN [raised  |-> Some(raw_weights[CHOOSE i \in failing :
                                              \A j \in failing : i <= j].kind),
              weights |-> vertex.weights]
        ELSE IF Len(present) = 0
        THEN [raised |-> None, weights |-> vertex.weights]
        ELSE [raised  |-> None,
              weights |-> AssignFrom(1, vertex.weights, bone_chain,
                                     NormalizedWeights(raw_weights))]

\* The loop `for vertex in mesh.data.vertices`, from vertex v on: the
\* vertices after it and the exception that ended it, if any.
RECURSIVE RedistributeFrom(_, _, _, _, _)
RedistributeFrom(v, vertices, bone_chain, present, falloff_exponent) ==
    IF v > Len(vertices) THEN [vertices |-> vertices, raised |-> None]
    ELSE LET out == RedistributeVertex(vertices[v], bone_chain, present, falloff_exponent)
         IN  IF out.raised # None
             THEN [vertices |-> vertices, raised |-> out.raised]
             ELSE RedistributeFrom(v + 1,
                                   [vertices EXCEPT ![v].weights = out.weights],
                                   bone_chain, present, falloff_exponent)

\* The loop that makes sure every joint of the chain has a weight group.
RECURSIVE EnsureGroups(_, _, _)
EnsureGroups(i, bone_chain, groups) ==
    IF i > Len(bone_chain) THEN groups
    ELSE EnsureGroups(i + 1, bone_chain,
                      IF bone_chain[i] \in SeqSet(groups) THEN groups
                      ELSE Append(groups, bone_chain[i]))

-----------------------------------------------------------------------------
(* orchestrator.py: RigInteropBridge.convert *)

\* Steps of convert in program order.
StepOrder ==
    <<"detect", "capture", "mapping", "adjust", "validate_adjustment", "transfer",
      "swap", "validate_weights", "reset", "bake", "validate_rest_pose", "export", "done">>

\* Steps that call into the scene backend, any of which may raise.
BackendSteps ==
    {"detect", "capture", "adjust", "validate_adjustment", "transfer", "swap",
     "validate_weights", "reset", "bake", "validate_rest_pose", "export"}

\* ConversionResult(success=False)
NewResult ==
    [success |-> FALSE, output_path |-> None, rig_metadata |-> None,
     joint_mapping |-> None, warnings |-> <<>>, errors |-> <<>>]

Message(kind, arg) == [kind |-> kind, arg |-> arg]

\* A plausible slip: the handler lets the exception travel on to the caller.
HandleExceptionReraise(res, e) ==
    [result  |-> [res EXCEPT !.success = FALSE,
                             !.errors = Append(@, Message("Conversion failed", e))],
     escaped |-> Some(e)]

\* except Exception as e: the result after the handler and what leaves convert
HandleException(res, e) ==
    [result  |-> [res EXCEPT !.success = FALSE,
                             !.errors = Append(@, Message("Conversion failed", e))],
     escaped |-> None]

\* A plausible slip: proportions are adjusted whatever the option says.
ShouldAdjustAlways(options) == TRUE

\* if self.options.preserve_proportions
ShouldAdjust(options) == options.preserve_proportions

\* A plausible slip: the messages replace the warnings gathered so far.
AfterWarningsOverwrite(res, is_valid, msgs) ==
    IF is_valid THEN res ELSE [res EXCEPT !.warnings = msgs]

\* is_valid, msgs = validate(...); if not is_valid: result.warnings.extend(msgs)
AfterWarnings(res, is_valid, msgs) ==
    IF is_valid THEN res ELSE [res EXCEPT !.warnings = @ \o msgs]

\* A plausible slip: the rest pose is reset before the weights are transferred.
NextPcResetFirst(step, j) ==
    CASE step = "start"               -> "detect"
      [] step = "detect"              -> "capture"
      [] step = "capture"             -> "mapping"
      [] step = "mapping"             -> "adjust"
      [] step = "adjust"              -> "validate_adjustment"
      [] step = "validate_adjustment" -> "reset"
      [] step = "skip_adjust"         -> "reset"
      [] step = "reset"               -> "bake"
      [] step = "bake"                -> "validate_rest_pose"
      [] step = "validate_rest_pose"  -> "transfer"
      [] step = "transfer"            -> "swap"
      [] step = "swap"                -> IF j.options.validate_weights
                                         THEN "validate_weights"
                                         ELSE IF j.output_path # None THEN "export"
                                         ELSE "finish"
      [] step = "validate_weights"    -> IF j.output_path # None THEN "export" ELSE "finish"
      [] step = "export"              -> "finish"

\* A plausible slip: the export runs right after the bake, before the rest
\* pose is validated.
NextPcExportEarly(step, j) ==
    CASE step = "start"               -> "detect"
      [] step = "detect"              -> "capture"
      [] step = "capture"             -> "mapping"
      [] step = "mapping"             -> "adjust"
      [] step = "adjust"              -> "validate_adjustment"
      [] step = "validate_adjustment" -> "transfer"
      [] step = "skip_adjust"         -> "transfer"
      [] step = "transfer"            -> "swap"
      [] step = "swap"                -> IF j.options.validate_weights
                                         THEN "validate_weights" ELSE "reset"
      [] step = "validate_weights"    -> "reset"
      [] step = "reset"               -> "bake"
      [] step = "bake"                -> IF j.output_path # None
                                         THEN "export" ELSE "validate_rest_pose"
      [] step = "export"              -> "validate_rest_pose"
      [] step = "validate_rest_pose"  -> "finish"

\* The statement order of the try block of convert: where control goes
\* when a step has ended without raising.
NextPc(step, j) ==
    CASE step = "start"               -> "detect"
      [] step = "detect"              -> "capture"
      [] step = "capture"             -> "mapping"
      [] step = "mapping"             -> "adjust"
      [] step = "adjust"              -> "validate_adjustment"
      [] step = "validate_adjustment" -> "transfer"
      [] step = "skip_adjust"         -> "transfer"
      [] step = "transfer"            -> "swap"
      [] step = "swap"                -> IF j.options.validate_weights
                                         THEN "validate_weights" ELSE "reset"
      [] step = "validate_weights"    -> "reset"
      [] step = "reset"               -> "bake"
      [] step = "bake"                -> "validate_rest_pose"
      [] step = "validate_rest_pose"  -> IF j.output_path # None THEN "export" ELSE "finish"
      [] step = "export"              -> "finish"

\* A step raises: the pending exception travels to the handler of convert.
Raises(step, msg) ==
    /\ pc' = "except"
    /\ trace' = Append(trace, step)
    /\ exc' = [exc EXCEPT !.inflight = Some(msg), !.raised = Some(msg)]
    /\ UNCHANGED <<job, result, locals>>

\* A step ends normally.
Ends(step) ==
    /\ pc' = NextPc(step, job)
    /\ trace' = Append(trace, step)
    /\ UNCHANGED <<job, exc>>

\* if not BLENDER_AVAILABLE or bpy is None: return ConversionResult(...)
EnterUnavailable ==
    /\ pc = "start"
    /\ ~job.blender_available
    /\ result' = [NewResult EXCEPT !.errors = <<Message("Blender API is not available", "")>>]
    /\ pc' = "returned"
    /\ UNCHANGED <<job, scene, locals, trace, exc>>
    /\ UNCHANGED <<detVars, validation, unitVars>>

\* result = ConversionResult(success=False); try:
Enter ==
    /\ pc = "start"
    /\ job.blender_available
    /\ result' = NewResult
    /\ pc' = NextPc("start", job)
    /\ UNCHANGED <<job, scene, locals, trace, exc>>
    /\ UNCHANGED <<detVars, validation, unitVars>>

\* Step 1: self.detector.detect(source_armature)
Step1_Detect ==
    /\ pc = "detect"
    /\ IF job.source_armature.type # "ARMATURE"
       THEN Raises("detect", "Object is not an armature") /\ UNCHANGED scene
       ELSE LET md == Detect(SeqSet(job.source_armature.bones))
            IN  /\ locals' = [locals EXCEPT !.rig_metadata = Some(md)]
                /\ result' = [result EXCEPT
                        !.rig_metadata = Some(md),
                        !.warnings = IF md.rig_type = "unknown"
                                     THEN Append(@, Message("Unknown rig type detected", 0))
                                     ELSE @]
                /\ Ends("detect")
                /\ UNCHANGED scene
    /\ UNCHANGED <<detVars, validation, unitVars>>

\* Step 2: self.matcher.capture_positions(...); calculate_metrics only prints
Step2_Capture ==
    /\ pc = "capture"
    /\ IF job.source_armature.type # "ARMATURE"
       THEN Raises("capture", "Object is not an armature") /\ UNCHANGED scene
       ELSE /\ locals' = [locals EXCEPT
                    !.source_positions = Some(CapturePositions(job.source_armature))]
            /\ Ends("capture")
            /\ UNCHANGED <<scene, result>>
    /\ UNCHANGED <<detVars, validation, unitVars>>

\* Step 3: self.matcher.create_mapping(...) and the unmapped-bone warnings
Step3_Mapping ==
    /\ pc = "mapping"
    /\ LET rig_type == locals.rig_metadata[1].rig_type
       IN  IF rig_type \notin DOMAIN BONE_MAPPINGS
           THEN Raises("mapping", "No bone mapping defined for rig type") /\ UNCHANGED scene
           ELSE LET jm == CreateMapping(locals.source_positions[1], rig_type)
                    w1 == IF Len(jm.unmapped_source) > 0
                          THEN <<Message("source bones not mapped", Len(jm.unmapped_source))>>
                          ELSE <<>>
                    w2 == IF Len(jm.unmapped_target) > 0
                          THEN <<Message("target bones not found in source",
                                         Len(jm.unmapped_target))>>
                          ELSE <<>>
                IN  /\ locals' = [locals EXCEPT !.joint_mapping = Some(jm)]
                    /\ result' = [result EXCEPT !.joint_mapping = Some(jm),
                                                !.warnings = @ \o w1 \o w2]
                    /\ Ends("mapping")
                    /\ UNCHANGED scene
    /\ UNCHANGED <<detVars, validation, unitVars>>

\* Step 4, taken: self.adjuster.adjust_to_match(canonical_armature, joint_mapping)
Step4_Adjust ==
    /\ pc = "adjust"
    /\ ShouldAdjust(job.options)
    /\ IF job.canonical_armature.type # "ARMATURE"
       THEN Raises("adjust", "Object is not an armature") /\ UNCHANGED scene
       ELSE LET bones == job.canonical_armature.bones
                jm    == locals.joint_mapping[1]
            IN  /\ locals' = [locals EXCEPT !.original_positions =
                                  Some(AdjustOriginals(bones, scene.heads, jm))]
                /\ scene' = [scene EXCEPT !.heads = AdjustHeads(bones, scene.heads, jm)]
                /\ Ends("adjust")
                /\ UNCHANGED result
    /\ UNCHANGED <<detVars, validation, unitVars>>

\* Step 4, skipped: original_positions = None
Step4_Skip ==
    /\ pc = "adjust"
    /\ ~ShouldAdjust(job.options)
    /\ locals' = [locals EXCEPT !.original_positions = None]
    /\ pc' = NextPc("skip_adjust", job)
    /\ UNCHANGED <<job, scene, result, trace, exc>>
    /\ UNCHANGED <<detVars, validation, unitVars>>

\* self.adjuster.validate_adjustment(...): one error per adjusted joint whose
\* world-space head is further than the tolerance from its target.
ValidateAdjustment ==
    /\ pc = "validate_adjustment"
    /\ \E n \in 0..MaxPosErrors :
          /\ n <= Len(locals.original_positions[1])
          /\ LET errors == [i \in 1..n |-> Message("bone position error", i)]
             IN  result' = AfterWarnings(result, n = 0, errors)
    /\ Ends("validate_adjustment")
    /\ UNCHANGED <<scene, locals>>
    /\ UNCHANGED <<detVars, validation, unitVars>>

\* Step 5: self.weight_transfer.transfer_weights(..., method="hybrid")
Step5_Transfer ==
    /\ pc = "transfer"
    /\ IF job.source_mesh.type # "MESH"
       THEN Raises("transfer", "Object is not a mesh") /\ UNCHANGED scene
       ELSE IF job.canonical_armature.type # "ARMATURE"
       THEN Raises("transfer", "Object is not an armature") /\ UNCHANGED scene
       ELSE LET jm     == locals.joint_mapping[1]
                vs     == job.source_mesh.vertices
                named  == TransferByName(scene.vertex_groups, jm, NewStats)
            IN  \E found \in [1..Len(vs) -> 0..Len(jm.target_positions)] :
                   /\ \A v \in 1..Len(vs) :
                         LET near == Nearest(jm.target_positions, vs[v].co)
                         IN  IF near = {} THEN found[v] = 0 ELSE found[v] \in near
                   /\ LET out == TransferByProximity(vs, found, named.vertex_groups, jm,
                                                     named.stats)
                      IN  /\ scene' = [scene EXCEPT
                                  !.transferred = TRUE,
                                  !.heads_at_transfer = Some(scene.heads),
                                  !.vertex_groups = out.vertex_groups]
                          /\ locals' = [locals EXCEPT !.transfer_stats = Some(out.stats)]
                   /\ Ends("transfer")
                   /\ UNCHANGED result
    /\ UNCHANGED <<detVars, validation, unitVars>>

\* self.weight_transfer.swap_armature(source_mesh, canonical_armature)
SwapArmature ==
    /\ pc = "swap"
    /\ scene' = [scene EXCEPT !.binding = "canonical"]
    /\ Ends("swap")
    /\ UNCHANGED <<result, locals>>
    /\ UNCHANGED <<detVars, validation, unitVars>>

\* for vgroup in mesh.vertex_groups: the indices of the groups without a
\* bone of their name, in order.
OrphanGroups(groups, bones) ==
    LET Orphan(i) == groups[i] \notin bones
    IN  SelectSeq([i \in 1..Len(groups) |-> i], Orphan)

\* for vertex in mesh.data.vertices: the indices of the vertices without
\* weights, in order.
UnweightedVertices(vertices) ==
    LET Unweighted(i) == vertices[i].groups = {}
    IN  SelectSeq([i \in 1..Len(vertices) |-> i], Unweighted)

\* The sequences that list the members of S once each.
Orderings(S) ==
    {o \in [1..Cardinality(S) -> S] : \A x \in S : \E i \in 1..Cardinality(S) : o[i] = x}

\* A plausible slip: a warning of any kind makes the outcome invalid.
WeightsValidStrict(vertices, warnings) == Len(warnings) = 0

\* is_valid of validate_weights: only a vertex without any weight clears it.
WeightsValid(vertices, warnings) ==
    \A v \in 1..Len(vertices) : vertices[v].groups # {}

\* WeightTransfer.validate_weights: one warning per group without a bone of
\* its name, one per vertex without weights, and one per sampled vertex
\* whose weights do not sum to 1 (off: the weighted vertices for which that
\* is so; a vertex without weights sums to 0; order: the order in which
\* random.sample returned the vertices, all of them being sampled).
ValidateWeightsOf(groups, vertices, bones, off, order) ==
    LET orphans    == OrphanGroups(groups, bones)
        unweighted == UnweightedVertices(vertices)
        InOrder(i) == order[i] \in off \cup SeqSet(unweighted)
        unnorm     == SelectSeq([i \in 1..Len(order) |-> i], InOrder)
        warnings   ==
            [i \in 1..Len(orphans) |->
                Message("vertex group has no matching bone", orphans[i])]
            \o [i \in 1..Len(unweighted) |->
                   Message("vertex has no weights", unweighted[i])]
            \o [i \in 1..Len(unnorm) |->
                   Message("weights not normalized", order[unnorm[i]])]
    IN  [is_valid |-> WeightsValid(vertices, warnings), warnings |-> warnings]

\* is_valid, warnings = self.weight_transfer.validate_weights(...);
\* if not is_valid: result.warnings.extend(warnings)
ValidateWeights ==
    /\ pc = "validate_weights"
    /\ LET vs       == job.source_mesh.vertices
           weighted == {v \in 1..Len(vs) : vs[v].groups # {}}
       IN  \E off \in SUBSET weighted, order \in Orderings(1..Len(vs)) :
              LET out == ValidateWeightsOf(scene.vertex_groups, vs,
                                           SeqSet(job.canonical_armature.bones), off, order)
              IN  /\ result' = AfterWarnings(result, out.is_valid, out.warnings)
                  /\ locals' = [locals EXCEPT !.warnings = Some(out.warnings)]
    /\ Ends("validate_weights")
    /\ UNCHANGED scene
    /\ UNCHANGED <<detVars, validation, unitVars>>

\* Step 6: self.pose_reset.reset_to_rest_pose(...), up to the bake
Step6_Reset ==
    /\ pc = "reset"
    /\ IF job.canonical_armature.type # "ARMATURE"
       THEN Raises("reset", "Object is not an armature") /\ UNCHANGED scene
       ELSE LET branch == ResetBranch(locals.original_positions)
                target == job.options.target_rest_pose
            IN  IF branch = "restore"
                THEN /\ scene' = [scene EXCEPT
                            !.heads = RestoreHeads(job.canonical_armature.bones, @,
                                                   locals.original_positions[1]),
                            !.reset_branch = branch]
                     /\ Ends("reset")
                     /\ UNCHANGED <<result, locals>>
                ELSE IF target \in {"t_pose", "a_pose"}
                THEN /\ scene' = [scene EXCEPT !.pose = target, !.reset_branch = branch]
                     /\ Ends("reset")
                     /\ UNCHANGED <<result, locals>>
                ELSE /\ scene' = [scene EXCEPT !.reset_branch = branch]
                     /\ Raises("reset", "Unknown rest pose type")
    /\ UNCHANGED <<detVars, validation, unitVars>>

\* self._bake_as_rest_pose(armature), the last statement of reset_to_rest_pose
Bake ==
    /\ pc = "bake"
    /\ scene' = [scene EXCEPT !.bakes = @ + 1]
    /\ Ends("bake")
    /\ UNCHANGED <<result, locals>>
    /\ UNCHANGED <<detVars, validation, unitVars>>

\* self.pose_reset.validate_rest_pose(...): one warning per upper arm that
\* exists and is off the expected angle; nothing is checked for CUSTOM.
ValidateRestPose ==
    /\ pc = "validate_rest_pose"
    /\ \E off \in SUBSET (IF job.options.target_rest_pose \in {"t_pose", "a_pose"}
                          THEN {"upperarm_l", "upperarm_r"}
                                  \cap SeqSet(job.canonical_armature.bones)
                          ELSE {}) :
          LET msgs == (IF "upperarm_l" \in off
                       THEN <<Message("bone not in rest pose", 1)>> ELSE <<>>)
                      \o (IF "upperarm_r" \in off
                          THEN <<Message("bone not in rest pose", 2)>> ELSE <<>>)
          IN  result' = AfterWarnings(result, off = {}, msgs)
    /\ Ends("validate_rest_pose")
    /\ UNCHANGED <<scene, locals>>
    /\ UNCHANGED <<detVars, validation, unitVars>>

\* Step 7: self._export(...); result.output_path = str(output_path)
Step7_Export ==
    /\ pc = "export"
    /\ scene' = [scene EXCEPT !.exported = TRUE]
    /\ result' = [result EXCEPT !.output_path = job.output_path]
    /\ Ends("export")
    /\ UNCHANGED locals
    /\ UNCHANGED <<detVars, validation, unitVars>>

\* result.success = True, then return result
Finish ==
    /\ pc = "finish"
    /\ result' = [result EXCEPT !.success = TRUE]
    /\ pc' = "returned"
    /\ trace' = Append(trace, "done")
    /\ UNCHANGED <<job, scene, locals, exc>>
    /\ UNCHANGED <<detVars, validation, unitVars>>

\* Any call into the scene backend may raise; the skipped adjustment makes
\* no such call.
BackendFault ==
    /\ pc \in BackendSteps
    /\ pc = "adjust" => ShouldAdjust(job.options)
    /\ Raises(pc, "backend error")
    /\ UNCHANGED scene
    /\ UNCHANGED <<detVars, validation, unitVars>>

\* except Exception as e: ...; return result
Catch ==
    /\ pc = "except"
    /\ LET h == HandleException(result, exc.inflight[1])
       IN  /\ result' = h.result
           /\ exc' = [exc EXCEPT !.inflight = None, !.caught = @ + 1, !.escaped = h.escaped]
    /\ pc' = "returned"
    /\ UNCHANGED <<job, scene, locals, trace>>
    /\ UNCHANGED <<detVars, validation, unitVars>>

\* A plausible slip: critical_errors is the result's own errors list, so the
\* findings are appended to the result.
ValidateConversionAliased(res) ==
    LET e1 == IF ~res.success THEN <<Message("Conversion reported failure", "")>> ELSE <<>>
        e2 == IF res.rig_metadata = None
              THEN <<Message("No rig metadata available", "")>> ELSE <<>>
        e3 == IF res.joint_mapping = None
              THEN <<Message("No joint mapping available", "")>> ELSE <<>>
        all == res.errors \o e1 \o e2 \o e3
    IN  [is_valid        |-> Len(all) = 0,
         critical_errors |-> all,
         result          |-> [res EXCEPT !.errors = all]]

\* RigInteropBridge.validate_conversion: the returned pair and the result
\* object after the call.  unmapped_pct > 0.3 is decided on integers:
\* u / m > 0.3 exactly when 10 * u > 3 * m, for the float quotient too.
ValidateConversion(res) ==
    LET e1 == IF ~res.success THEN <<Message("Conversion reported failure", "")>> ELSE <<>>
        e2 == IF res.rig_metadata = None
              THEN <<Message("No rig metadata available", "")>> ELSE <<>>
        e3 == IF res.joint_mapping = None
              THEN <<Message("No joint mapping available", "")>> ELSE <<>>
        e4 == res.errors
        unmapped == IF res.joint_mapping = None THEN 0
                    ELSE Len(res.joint_mapping[1].unmapped_target)
        mapped   == IF res.joint_mapping = None THEN 0
                    ELSE Len(res.joint_mapping[1].target_positions)
        excessive == /\ res.joint_mapping # None
                     /\ mapped > 0
                     /\ 10 * unmapped > 3 * mapped
        e5 == IF excessive THEN <<Message("Too many unmapped target bones", "")>> ELSE <<>>
        all == e1 \o e2 \o e3 \o e4 \o e5
    IN  [is_valid        |-> Len(all) = 0,
         critical_errors |-> all,
         result          |-> res]

-----------------------------------------------------------------------------
(* Inputs and specifications *)

ExtraNames == {"Bone.001", "Bone.002"}

SignedTypes == SeqSet(RigOrder)

RequiredSet(t) == SeqSet(RIG_SIGNATURES[t].required_bones)

PatternSet(t) == SeqSet(RIG_SIGNATURES[t].pattern_bones)

SigNames(t) == RequiredSet(t) \cup PatternSet(t)

\* The 16 joints of a Mixamo skeleton, in bone order.
Mixamo16 ==
    <<"Hips", "Spine", "LeftArm", "RightArm", "LeftForeArm", "RightForeArm",
      "LeftHand", "RightHand", "LeftUpLeg", "RightUpLeg", "LeftLeg", "RightLeg",
      "LeftFoot", "RightFoot", "Neck", "Head">>

\* Joint-name sets: any part of one signature's joints, optionally together
\* with the complete joints of a second signature and a few foreign joints;
\* and the 16-joint Mixamo skeleton.
BoneSets ==
    {X \cup Y \cup E :
        X \in UNION {SUBSET SigNames(t) : t \in SignedTypes},
        Y \in {{}} \cup {SigNames(t) : t \in SignedTypes},
        E \in {F \in SUBSET ExtraNames : Cardinality(F) <= MaxExtraBones}}
    \cup {SeqSet(Mixamo16)}

\* Signatures handed to _calculate_confidence: the table's own, and each
\* with its pattern list emptied (signature.get("pattern_bones", [])).
SignatureInputs ==
    {RIG_SIGNATURES[t] : t \in SignedTypes}
    \cup {[RIG_SIGNATURES[t] EXCEPT !.pattern_bones = <<>>] : t \in SignedTypes}

NoSignature == [required_bones |-> <<>>, pattern_bones |-> <<>>, min_confidence |-> 0]

NoDetection == RigMetadata("unknown", "custom", 0, 0, {})

\* Source armatures of a run, as bone lists.
SourceRigs ==
    { Mixamo16,
      Mixamo16 \o <<"Bone.001">>,
      <<"CC_Base_Hip", "CC_Base_Hips", "CC_Base_Spine01", "CC_Base_L_Upperarm",
        "CC_Base_R_Upperarm">>,
      <<"J_Bip_C_Hips", "J_Bip_L_UpperArm", "J_Bip_R_UpperArm">>,
      <<"pelvis", "spine_01", "spine_02", "FACIAL_C_FacialRoot", "neck_01", "head">>,
      <<"pelvis", "spine_01", "clavicle_l", "clavicle_r", "thigh_l", "thigh_r",
        "upperarm_l", "upperarm_r">>,
      <<"Bone.001", "Bone.002">> }

\* Source meshes of a run: one vertex that no group weights, or one vertex
\* weighted in the group of the source hip joint, next to a group that
\* already carries the canonical name.
SourceMeshes ==
    { [vertex_groups |-> <<>>, vertices |-> <<[co |-> 1, groups |-> {}]>>],
      [vertex_groups |-> <<"Hips", "pelvis">>,
       vertices |-> <<[co |-> 1, groups |-> {1}]>>] }

\* Canonical skeletons of a run: the joints the mapping tables name, or a
\* skeleton that shares no joint with them.
CanonicalJoints ==
    [i \in 1..Len(BONE_MAPPINGS["arp"]) |-> BONE_MAPPINGS["arp"][i].canonical]

CanonicalSkeletons == {CanonicalJoints, <<"root">>}

IndexIn(s, x) == CHOOSE i \in 1..Len(s) : s[i] = x

\* World-space heads: every source joint and every canonical joint at a
\* place of its own.
SourceHeads(bones) == [b \in SeqSet(bones) |-> IndexIn(bones, b)]

CanonicalHeads(bones) == [b \in SeqSet(bones) |-> 100 + IndexIn(bones, b)]

Jobs ==
    {[blender_available  |-> avail,
      options            |-> [preserve_proportions |-> pp,
                              validate_weights     |-> vw,
                              target_rest_pose     |-> rp],
      output_path        |-> out,
      source_armature    |-> [type  |-> IF bad = "source" THEN "MESH" ELSE "ARMATURE",
                              bones |-> src, heads |-> SourceHeads(src)],
      source_mesh        |-> [type |-> IF bad = "mesh" THEN "EMPTY" ELSE "MESH",
                              vertex_groups |-> mesh.vertex_groups,
                              vertices |-> mesh.vertices],
      canonical_armature |-> [type  |-> IF bad = "canonical" THEN "MESH" ELSE "ARMATURE",
                              bones |-> can]] :
        avail \in BOOLEAN, pp \in BOOLEAN, vw \in BOOLEAN, rp \in RestPose,
        out \in {None, Some("out.glb")}, src \in SourceRigs, can \in CanonicalSkeletons,
        bad \in {"none", "source", "mesh", "canonical"}, mesh \in SourceMeshes}

NoJob ==
    [blender_available  |-> TRUE,
     options            |-> [preserve_proportions |-> TRUE, validate_weights |-> TRUE,
                             target_rest_pose |-> "t_pose"],
     output_path        |-> None,
     source_armature    |-> [type |-> "ARMATURE", bones |-> <<>>, heads |-> <<>>],
     source_mesh        |-> [type |-> "MESH", vertex_groups |-> <<>>, vertices |-> <<>>],
     canonical_armature |-> [type |-> "ARMATURE", bones |-> <<>>]]

NewScene(j) ==
    [heads |-> CanonicalHeads(j.canonical_armature.bones), binding |-> "source",
     vertex_groups |-> j.source_mesh.vertex_groups,
     transferred |-> FALSE, heads_at_transfer |-> None, pose |-> "rest",
     reset_branch |-> "none", bakes |-> 0, exported |-> FALSE]

NoLocals ==
    [rig_metadata |-> None, source_positions |-> None, joint_mapping |-> None,
     original_positions |-> None, transfer_stats |-> None, warnings |-> None]

NoException == [inflight |-> None, raised |-> None, caught |-> 0, escaped |-> None]

NoValidation == [given |-> NewResult, is_valid |-> FALSE, critical_errors |-> <<>>]

IdleDetect ==
    /\ bone_names = {}
    /\ sig_in = NoSignature
    /\ conf_out = -1
    /\ detection = NoDetection
    /\ det_pc = "idle"

IdleRun(p) ==
    /\ job = NoJob
    /\ scene = NewScene(NoJob)
    /\ pc = p
    /\ locals = NoLocals
    /\ trace = <<>>
    /\ exc = NoException

NoMatcher == [pc |-> "idle"]

NoTransfer == [pc |-> "idle"]

NoRedistribution == [pc |-> "idle"]

NoService == [pc |-> "idle"]

IdleUnits ==
    /\ matcher = NoMatcher
    /\ xfer = NoTransfer
    /\ redist = NoRedistribution
    /\ service = NoService

\* One call of convert on one job.
Init ==
    /\ job \in Jobs
    /\ scene = NewScene(job)
    /\ pc = "start"
    /\ result = NewResult
    /\ locals = NoLocals
    /\ trace = <<>>
    /\ exc = NoException
    /\ validation = NoValidation
    /\ IdleDetect
    /\ IdleUnits

Next ==
    \/ EnterUnavailable
    \/ Enter
    \/ Step1_Detect
    \/ Step2_Capture
    \/ Step3_Mapping
    \/ Step4_Adjust
    \/ Step4_Skip
    \/ ValidateAdjustment
    \/ Step5_Transfer
    \/ SwapArmature
    \/ ValidateWeights
    \/ Step6_Reset
    \/ Bake
    \/ ValidateRestPose
    \/ Step7_Export
    \/ Finish
    \/ BackendFault
    \/ Catch

Spec == Init /\ [][Next]_vars

\* The detector on a detached joint-name set.
InitDetect ==
    /\ bone_names \in BoneSets
    /\ sig_in = NoSignature
    /\ conf_out = -1
    /\ detection = NoDetection
    /\ det_pc = "input"
    /\ IdleRun("idle")
    /\ result = NewResult
    /\ validation = NoValidation
    /\ IdleUnits

\* A call of _calculate_confidence(bone_names, signature)
ScoreSignature ==
    /\ det_pc = "input"
    /\ \E sg \in SignatureInputs :
          /\ sig_in' = sg
          /\ conf_out' = CalculateConfidence(bone_names, sg)
    /\ det_pc' = "scored"
    /\ UNCHANGED <<bone_names, detection, runVars, validation, unitVars>>

\* A call of detect_from_bone_list(bone_names)
ClassifyBoneList ==
    /\ det_pc = "input"
    /\ detection' = DetectFromBoneList(bone_names)
    /\ det_pc' = "detected"
    /\ UNCHANGED <<bone_names, sig_in, conf_out, runVars, validation, unitVars>>

NextDetect == ScoreSignature \/ ClassifyBoneList

SpecDetect == InitDetect /\ [][NextDetect]_vars

\* A correspondence over the first `total` canonical joints of which the
\* last `unmapped` found no source joint.
MappingOf(total, unmapped) ==
    [source_positions |-> [i \in 1..(total - unmapped) |-> [name |-> CanonicalJoints[i],
                                                          position |-> i]],
     target_positions |-> [i \in 1..(total - unmapped) |-> [name |-> CanonicalJoints[i],
                                                          position |-> i]],
     unmapped_source  |-> <<>>,
     unmapped_target  |-> [i \in 1..unmapped |-> CanonicalJoints[total - unmapped + i]]]

\* Results handed to validate_conversion.
ResultInputs ==
    {[success       |-> ok,
      output_path   |-> None,
      rig_metadata  |-> md,
      joint_mapping |-> jm,
      warnings      |-> <<>>,
      errors        |-> errs] :
        ok \in BOOLEAN,
        md \in {None, Some(Detect(SeqSet(Mixamo16)))},
        jm \in {None} \cup {Some(MappingOf(nu[1], nu[2])) :
                               nu \in {x \in (0..MaxCanonicalJoints) \X (0..MaxCanonicalJoints) :
                                          x[2] <= x[1]}},
        errs \in {<<>>, <<Message("Conversion failed", "backend error")>>}}

InitValidate ==
    /\ result \in ResultInputs
    /\ validation = NoValidation
    /\ IdleRun("result_given")
    /\ IdleDetect
    /\ IdleUnits

\* A call of validate_conversion(result)
ValidateConversionCall ==
    /\ pc = "result_given"
    /\ LET out == ValidateConversion(result)
       IN  /\ validation' = [given |-> result, is_valid |-> out.is_valid,
                             critical_errors |-> out.critical_errors]
           /\ result' = out.result
    /\ pc' = "validated"
    /\ UNCHANGED <<detVars, job, scene, locals, trace, exc, unitVars>>

NextValidate == ValidateConversionCall

SpecValidate == InitValidate /\ [][NextValidate]_vars

-----------------------------------------------------------------------------
(* The matcher, the adjuster and the restore called one after the other *)

\* Joint names a captured source skeleton is made of.
MatchPool ==
    <<"CC_Base_Hips", "CC_Base_Hip", "CC_Base_Spine01", "Hips", "root.x", "Bone.001">>

SubSeqOf(s, keep) ==
    LET Kept(x) == x \in keep
    IN  SelectSeq(s, Kept)

\* Source skeletons: the rigs of a run and every selection from the pool.
MatchSources == SourceRigs \cup {SubSeqOf(MatchPool, K) : K \in SUBSET SeqSet(MatchPool)}

\* Tails of the canonical skeleton: bones of length 2, pointing up or down
\* the axis.
CanonicalTails(bones) ==
    [b \in SeqSet(bones) |->
        CanonicalHeads(bones)[b] + (IF IndexIn(bones, b) % 2 = 0 THEN 2 ELSE -2)]

\* A source skeleton laid over the canonical one: its i-th joint stands
\* where the i-th canonical joint has its tail.
OverlaidHeads(bones) ==
    [b \in SeqSet(bones) |->
        100 + IndexIn(bones, b) + (IF IndexIn(bones, b) % 2 = 0 THEN 2 ELSE -2)]

MatchSkeleton(bones) ==
    [type |-> "ARMATURE", bones |-> bones,
     heads |-> CanonicalHeads(bones), tails |-> CanonicalTails(bones)]

\* The source of a capture: a source skeleton, or the canonical skeleton
\* itself.
InitMatch ==
    /\ \E can \in CanonicalSkeletons, rt \in RigType :
         \E src \in {[type |-> "ARMATURE", bones |-> b, heads |-> SourceHeads(b)] :
                        b \in MatchSources}
                    \cup {[type |-> "ARMATURE", bones |-> b, heads |-> OverlaidHeads(b)] :
                           b \in MatchSources}
                    \cup {[type |-> "ARMATURE", bones |-> can,
                           heads |-> CanonicalHeads(can)]} :
            matcher = [pc |-> "input", source |-> src, rig_type |-> rt,
                       armature |-> MatchSkeleton(can), initial |-> MatchSkeleton(can),
                       at_reset |-> MatchSkeleton(can),
                       source_positions |-> None, joint_mapping |-> None,
                       original_positions |-> None, raised |-> None]
    /\ xfer = NoTransfer
    /\ redist = NoRedistribution
    /\ service = NoService
    /\ IdleRun("idle")
    /\ result = NewResult
    /\ validation = NoValidation
    /\ IdleDetect

\* source_positions = matcher.capture_positions(source, rig_type)
CaptureCall ==
    /\ matcher.pc = "input"
    /\ matcher' = [matcher EXCEPT
            !.source_positions = Some(CapturePositions(matcher.source)),
            !.pc = "captured"]
    /\ UNCHANGED <<detVars, runVars, validation, xfer, redist, service>>

\* joint_mapping = matcher.create_mapping(source_positions, rig_type)
CreateMappingCall ==
    /\ matcher.pc = "captured"
    /\ matcher' =
          IF matcher.rig_type \notin DOMAIN BONE_MAPPINGS
          THEN [matcher EXCEPT !.raised = Some("No bone mapping defined for rig type"),
                               !.pc = "raised"]
          ELSE [matcher EXCEPT
                   !.joint_mapping = Some(CreateMapping(matcher.source_positions[1],
                                                        matcher.rig_type)),
                   !.pc = "mapped"]
    /\ UNCHANGED <<detVars, runVars, validation, xfer, redist, service>>

\* original_positions = adjuster.adjust_to_match(armature, joint_mapping)
AdjustCall ==
    /\ matcher.pc = "mapped"
    /\ LET a  == matcher.armature
           jm == matcher.joint_mapping[1]
       IN  matcher' = [matcher EXCEPT
               !.original_positions = Some(AdjustOriginals(a.bones, a.heads, jm)),
               !.armature = [a EXCEPT !.heads = AdjustHeads(a.bones, a.heads, jm),
                                      !.tails = AdjustTails(a.bones, a.heads, a.tails, jm)],
               !.pc = "adjusted"]
    /\ UNCHANGED <<detVars, runVars, validation, xfer, redist, service>>

\* pose_reset._restore_exact_positions(armature, original_positions), the
\* branch reset_to_rest_pose takes for a non-empty original_positions
RestoreCall ==
    /\ matcher.pc = "adjusted"
    /\ ResetBranch(matcher.original_positions) = "restore"
    /\ LET a  == matcher.armature
           op == matcher.original_positions[1]
       IN  matcher' = [matcher EXCEPT
               !.at_reset = a,
               !.armature = [a EXCEPT !.heads = RestoreHeads(a.bones, a.heads, op),
                                      !.tails = RestoreTails(a.bones, a.heads, a.tails, op)],
               !.pc = "restored"]
    /\ UNCHANGED <<detVars, runVars, validation, xfer, redist, service>>

NextMatch == CaptureCall \/ CreateMappingCall \/ AdjustCall \/ RestoreCall

SpecMatch == InitMatch /\ [][NextMatch]_vars

-----------------------------------------------------------------------------
(* transfer_weights on a mesh *)

\* The source skeleton of a transfer: a Mixamo spine with one helper joint,
\* and the names its mesh may carry weight groups for.
TransferRigs ==
    { [rig_type |-> "mixamo", bones |-> <<"Bone.001", "Hips", "Spine">>,
       group_pool |-> <<"Spine", "Bone.001", "Hips", "pelvis">>] }

\* Weight groups of the mesh at the start: names without repeats.
GroupLists(pool) ==
    {SubSeqOf(pool, K) : K \in {X \in SUBSET SeqSet(pool) : Cardinality(X) <= 2}}

\* Vertices of a mesh that has n weight groups: none of them weighted, or
\* all of them weighted in the first group.
VertexLists(n) ==
    LET Memberships == {{}} \cup (IF n > 0 THEN {{1}} ELSE {})
    IN  {[v \in 1..k |-> [co |-> cs[v], groups |-> g]] :
            k \in 0..MaxVertices, cs \in [1..MaxVertices -> 1..MaxCoordinate],
            g \in Memberships}

TransferMethods == {"name", "proximity", "hybrid", "nearest"}

InitTransfer ==
    /\ \E rig \in TransferRigs, m \in TransferMethods :
         \E h \in [SeqSet(rig.bones) -> 1..MaxCoordinate], g \in GroupLists(rig.group_pool) :
            \E vs \in VertexLists(Len(g)) :
               LET src == [type |-> "ARMATURE", bones |-> rig.bones, heads |-> h]
               IN  xfer = [pc |-> "input", method |-> m, rig_type |-> rig.rig_type,
                           source |-> src,
                           joint_mapping |-> CreateMapping(CapturePositions(src), rig.rig_type),
                           vertex_groups |-> g, vertices |-> vs, stats |-> NewStats,
                           initial_groups |-> g, after_name |-> g, passes |-> <<>>]
    /\ matcher = NoMatcher
    /\ redist = NoRedistribution
    /\ service = NoService
    /\ IdleRun("idle")
    /\ result = NewResult
    /\ validation = NoValidation
    /\ IdleDetect

\* self._transfer_by_name(...) of method "name" and, first, of "hybrid"
NamePass ==
    /\ xfer.pc = "input"
    /\ xfer.method \in {"name", "hybrid"}
    /\ LET out == TransferByName(xfer.vertex_groups, xfer.joint_mapping, xfer.stats)
       IN  xfer' = [xfer EXCEPT !.vertex_groups = out.vertex_groups,
                                !.after_name = out.vertex_groups,
                                !.stats = out.stats,
                                !.passes = Append(@, "name"),
                                !.pc = IF xfer.method = "hybrid" THEN "named" ELSE "done"]
    /\ UNCHANGED <<detVars, runVars, validation, matcher, redist, service>>

\* self._transfer_by_proximity(...) of method "proximity" and, second, of
\* "hybrid"
ProximityPass ==
    /\ \/ xfer.pc = "input" /\ xfer.method = "proximity"
       \/ xfer.pc = "named"
    /\ \E found \in [1..Len(xfer.vertices) ->
                         0..Len(xfer.joint_mapping.target_positions)] :
          /\ \A v \in 1..Len(xfer.vertices) :
                LET near == Nearest(xfer.joint_mapping.target_positions, xfer.vertices[v].co)
                IN  IF near = {} THEN found[v] = 0 ELSE found[v] \in near
          /\ LET out == TransferByProximity(xfer.vertices, found, xfer.vertex_groups,
                                            xfer.joint_mapping, xfer.stats)
             IN  xfer' = [xfer EXCEPT !.vertex_groups = out.vertex_groups,
                                      !.stats = out.stats,
                                      !.passes = Append(@, "proximity"),
                                      !.pc = "done"]
    /\ UNCHANGED <<detVars, runVars, validation, matcher, redist, service>>

\* else: raise ValueError(f"Unknown transfer method: {method}")
UnknownMethod ==
    /\ xfer.pc = "input"
    /\ xfer.method \notin {"name", "proximity", "hybrid"}
    /\ xfer' = [xfer EXCEPT !.pc = "raised"]
    /\ UNCHANGED <<detVars, runVars, validation, matcher, redist, service>>

NextTransfer == NamePass \/ ProximityPass \/ UnknownMethod

SpecTransfer == InitTransfer /\ [][NextTransfer]_vars

-----------------------------------------------------------------------------
(* redistribute_weights on a mesh *)

ChainJoints == <<"spine_01", "spine_02", "spine_03">>

\* bone_chain: the first one, two or three joints of the spine.
Chains == {SubSeq(ChainJoints, 1, n) : n \in 1..Len(ChainJoints)}

\* Joints of the armature: the whole spine, or the spine without spine_02.
ChainArmatures == {SeqSet(ChainJoints), {"spine_01", "spine_03"}}

\* falloff_exponent: the default 20.0, a gentle one and two steep ones.
FalloffExponents == {1, 20, 160, 200}

\* Decimal exponents of the vertex-to-joint distances: 1e-4 and 1e-3 (at or
\* below the cutoff), 1e-2, 1 and 100.
DistanceDecades == {-4, -3, -2, 0, 2}

\* The weights a vertex has before the call: none, or 1/2 in the group of
\* each joint of the chain.
PriorWeights(chain) == {<<>>, [j \in SeqSet(chain) |-> Weight(1, 2)]}

\* The geometry enters redistribute_weights only through the distances of
\* each vertex to the joints of the chain that the armature has.  A mesh
\* has one vertex anywhere, or a second vertex equally far from every joint.
ChainVertexLists(chain, bones, prior) ==
    LET joints == SeqSet(chain) \cap bones
        Free   == {[dist |-> d, weights |-> prior] : d \in [joints -> DistanceDecades]}
        Equi   == {[dist |-> [j \in joints |-> k], weights |-> prior] : k \in DistanceDecades}
    IN  {<<v>> : v \in Free} \cup {<<v, w>> : v \in Free, w \in Equi}

InitRedistribute ==
    /\ \E chain \in Chains, bones \in ChainArmatures, e \in FalloffExponents :
         \E prior \in PriorWeights(chain) :
            \E vs \in ChainVertexLists(chain, bones, prior) :
               redist = [pc |-> "input", bone_chain |-> chain, armature_bones |-> bones,
                         falloff_exponent |-> e,
                         vertex_groups |-> IF prior = <<>> THEN <<>> ELSE chain,
                         vertices |-> vs, initial |-> vs, raised |-> None]
    /\ matcher = NoMatcher
    /\ xfer = NoTransfer
    /\ service = NoService
    /\ IdleRun("idle")
    /\ result = NewResult
    /\ validation = NoValidation
    /\ IdleDetect

\* A call of redistribute_weights(mesh, armature, bone_chain, falloff_exponent)
RedistributeCall ==
    /\ redist.pc = "input"
    /\ LET InArmature(j) == j \in redist.armature_bones
           present == SelectSeq(redist.bone_chain, InArmature)
           out == RedistributeFrom(1, redist.vertices, redist.bone_chain, present,
                                   redist.falloff_exponent)
       IN  redist' = [redist EXCEPT
               !.vertex_groups = EnsureGroups(1, redist.bone_chain, @),
               !.vertices = out.vertices,
               !.raised = out.raised,
               !.pc = IF out.raised = None THEN "done" ELSE "raised"]
    /\ UNCHANGED <<detVars, runVars, validation, matcher, xfer, service>>

NextRedistribute == RedistributeCall

SpecRedistribute == InitRedistribute /\ [][NextRedistribute]_vars

-----------------------------------------------------------------------------
(* services/conversion.py, api/v1/router.py: the conversion service *)

\* A stored file is named by the directory or key prefix it is in and its
\* file name; a prefix made from a job id also carries that job.
Uri(dir, owner, name) == [dir |-> dir, job |-> owner, name |-> name]

\* ConversionService._default_output_uri: s3://{bucket}/jobs/{job_id}, or
\* None without an output bucket.  uuid4 gives every job an id of its own.
DefaultOutputUri(settings, job_id) ==
    IF settings.output_bucket = None THEN None
    ELSE Some([kind |-> "s3", dir |-> "s3://bucket/jobs", job |-> job_id])

\* destination_uri = request.output_uri or self._default_output_uri(job_id)
DestinationUri(request, settings, job_id) ==
    IF request.output_uri # None THEN request.output_uri
    ELSE DefaultOutputUri(settings, job_id)

\* ConversionService._dispatch_artifact: where the artifact goes: under the
\* S3 prefix, into the directory the destination names, or into
\* work_dir/artifacts.
TargetOf(destination_uri, job_id, name) ==
    IF destination_uri # None
    THEN Uri(destination_uri[1].dir, destination_uri[1].job, name)
    ELSE Uri("work_dir/artifacts", 0, name)

\* File names the backend writes .glb files under, in sorted order.
GlbNames == <<"UE5_a.glb", "UE5_b.glb">>

\* files = sorted(output_dir.glob("*.glb"))
SortedGlbs(output_dir) ==
    LET Here(n) == n \in output_dir
    IN  SelectSeq(GlbNames, Here)

\* logs: the lines of stdout, then the lines of stderr
LogsOf(completed) == completed.stdout \o completed.stderr

\* A plausible slip: the temporary directory is removed only when convert
\* returns.
CloseTempOnReturn(temp, j, raising) ==
    IF raising THEN temp ELSE [temp EXCEPT ![j] = None]

\* with TemporaryDirectory(...) as temp_dir: leaving the block, by return or
\* by exception, removes the directory and everything in it.
CloseTemp(temp, j, raising) == [temp EXCEPT ![j] = None]

\* A plausible slip: the exit status of the backend is not looked at.
ExitFailedNever(completed) == FALSE

\* if completed.returncode != 0: raise BlenderConversionError(...)
ExitFailed(completed) == completed.returncode # 0

\* The route handler of /convert: 202 with the response, 400 for
\* FileNotFoundError and ValueError, 500 for BlenderConversionError; any
\* other exception leaves the handler and the framework answers 500.
HttpStatus(raised) ==
    IF raised = None THEN 202
    ELSE IF raised[1] \in {"FileNotFoundError", "ValueError"} THEN 400
    ELSE 500

-----------------------------------------------------------------------------
(* Two requests served at the same time, each in a thread of its own *)

ServiceJobs == {1, 2}

\* source_uri: a local file, a path that does not exist, a directory, or an
\* S3 object; output_uri: none, an S3 prefix, or a local directory.
Requests ==
    {[source_uri |-> s, output_uri |-> o] :
        s \in {"file", "missing", "directory", "s3"},
        o \in {None,
               Some([kind |-> "s3", dir |-> "s3://out/prefix", job |-> 0]),
               Some([kind |-> "local", dir |-> "/exports", job |-> 0])}}

NewThread(request) ==
    [pc |-> "new", request |-> request, destination_uri |-> None, completed |-> None,
     files |-> <<>>, pending |-> <<>>, artifacts |-> <<>>, raised |-> None,
     response |-> None,
     status_code |-> 0]

InitService ==
    /\ \E bucket \in {None, Some("bucket")}, reqs \in [ServiceJobs -> Requests] :
          service = [pc |-> "serving",
                     settings |-> [output_bucket |-> bucket],
                     threads |-> [j \in ServiceJobs |-> NewThread(reqs[j])],
                     temp |-> [j \in ServiceJobs |-> None],
                     store |-> {}]
    /\ matcher = NoMatcher
    /\ xfer = NoTransfer
    /\ redist = NoRedistribution
    /\ IdleRun("idle")
    /\ result = NewResult
    /\ validation = NoValidation
    /\ IdleDetect

\* An exception leaves convert of job j: the with block removes the
\* temporary directory on the way out.
RaiseFrom(j, e) ==
    service' = [service EXCEPT
        !.threads[j].raised = Some(e),
        !.threads[j].pc = "raised",
        !.temp = CloseTemp(@, j, TRUE)]

\* with TemporaryDirectory(prefix="rig-transformer-") as temp_dir:
OpenTemp(j) ==
    /\ service.threads[j].pc = "new"
    /\ service' = [service EXCEPT !.threads[j].pc = "opened",
                                  !.temp[j] = Some({})]
    /\ UNCHANGED <<detVars, runVars, validation, matcher, xfer, redist>>

\* input_path = self._materialise_input(...); output_dir.mkdir(...);
\* job_id = uuid4().hex; destination_uri = ...
MaterialiseInput(j) ==
    /\ service.threads[j].pc = "opened"
    /\ LET th     == service.threads[j]
           staged == [service EXCEPT
                         !.threads[j].pc = "staged",
                         !.threads[j].destination_uri =
                             DestinationUri(th.request, service.settings, j)]
       IN  CASE th.request.source_uri = "s3" ->
                  \/ service' = [staged EXCEPT !.temp[j] = Some({"input", "output/"})]
                  \/ RaiseFrom(j, "ClientError")
             [] th.request.source_uri = "missing" -> RaiseFrom(j, "FileNotFoundError")
             [] th.request.source_uri = "directory" -> RaiseFrom(j, "IsADirectoryError")
             [] th.request.source_uri = "file" ->
                  service' = [staged EXCEPT !.temp[j] = Some({"output/"})]
    /\ UNCHANGED <<detVars, runVars, validation, matcher, xfer, redist>>

\* completed = subprocess.run(cmd, cwd=working_dir, ...); logs; the check of
\* the exit status; files = sorted(output_dir.glob("*.glb")).  The backend
\* may write its session file and .glb files whatever its exit status is.
RunBackend(j) ==
    /\ service.threads[j].pc = "staged"
    /\ \/ RaiseFrom(j, "FileNotFoundError")
       \/ \E rc \in {0, 1}, written \in SUBSET ({"session.blend"} \cup SeqSet(GlbNames)) :
             LET completed  == [returncode |-> rc,
                                stdout |-> <<"stdout">>,
                                stderr |-> IF rc = 0 THEN <<>> ELSE <<"stderr">>]
                 output_dir == written
             IN  IF ExitFailed(completed)
                 THEN service' = [service EXCEPT
                         !.threads[j].completed = Some(completed),
                         !.threads[j].raised = Some("BlenderConversionError"),
                         !.threads[j].pc = "raised",
                         !.temp = CloseTemp(@, j, TRUE)]
                 ELSE service' = [service EXCEPT
                         !.threads[j].completed = Some(completed),
                         !.threads[j].files = SortedGlbs(output_dir),
                         !.threads[j].pending = SortedGlbs(output_dir),
                         !.threads[j].pc = "collecting",
                         !.temp[j] = Some(@[1] \cup output_dir)]
    /\ UNCHANGED <<detVars, runVars, validation, matcher, xfer, redist>>

\* One turn of the loop of _collect_artifacts: self._dispatch_artifact(...)
\* uploads or copies the file, which may fail.
DispatchArtifact(j) ==
    /\ service.threads[j].pc = "collecting"
    /\ Len(service.threads[j].pending) > 0
    /\ LET th     == service.threads[j]
           name   == Head(th.pending)
           target == TargetOf(th.destination_uri, j, name)
           others == {f \in service.store : f.uri # target}
       IN  \/ service' = [service EXCEPT
                  !.store = others \cup {[uri |-> target, content |-> j]},
                  !.threads[j].artifacts = Append(@, target),
                  !.threads[j].pending = Tail(@)]
           \/ RaiseFrom(j, IF th.destination_uri # None /\ th.destination_uri[1].kind = "s3"
                           THEN "ClientError" ELSE "OSError")
    /\ UNCHANGED <<detVars, runVars, validation, matcher, xfer, redist>>

\* return ConversionResponse(status="COMPLETED", artifacts=artifacts, logs=logs)
ReturnResponse(j) ==
    /\ service.threads[j].pc = "collecting"
    /\ Len(service.threads[j].pending) = 0
    /\ LET th == service.threads[j]
       IN  service' = [service EXCEPT
               !.threads[j].response = Some([status |-> "COMPLETED",
                                             artifacts |-> th.artifacts,
                                             logs |-> LogsOf(th.completed[1])]),
               !.threads[j].pc = "returned",
               !.temp = CloseTemp(@, j, FALSE)]
    /\ UNCHANGED <<detVars, runVars, validation, matcher, xfer, redist>>

\* The route handler answers the request.
Respond(j) ==
    /\ service.threads[j].pc \in {"returned", "raised"}
    /\ service' = [service EXCEPT
           !.threads[j].status_code = HttpStatus(service.threads[j].raised),
           !.threads[j].pc = "responded"]
    /\ UNCHANGED <<detVars, runVars, validation, matcher, xfer, redist>>

NextService ==
    \E j \in ServiceJobs :
        \/ OpenTemp(j)
        \/ MaterialiseInput(j)
        \/ RunBackend(j)
        \/ DispatchArtifact(j)
        \/ ReturnResponse(j)
        \/ Respond(j)

SpecService == InitService /\ [][NextService]_vars

-----------------------------------------------------------------------------
(* Properties of the detector *)

ConfOf(t) == CalculateConfidence(bone_names, RIG_SIGNATURES[t])

Qualifying == {t \in SignedTypes : ConfOf(t) >= RIG_SIGNATURES[t].min_confidence}

RankOf(t) == CHOOSE i \in 1..Len(RigOrder) : RigOrder[i] = t

\* C7: classification returns the qualifying rig type of highest confidence,
\* the earlier-declared one among equals, and UNKNOWN with confidence 0 when
\* no rig type meets its own min_confidence.
C7_SelectsBestQualifying ==
    det_pc = "detected" =>
        IF Qualifying = {}
        THEN detection.rig_type = "unknown" /\ detection.confidence = 0
        ELSE /\ detection.rig_type \in Qualifying
             /\ detection.confidence = ConfOf(detection.rig_type)
             /\ \A u \in Qualifying :
                   /\ ConfOf(u) <= detection.confidence
                   /\ ConfOf(u) = detection.confidence
                         => RankOf(detection.rig_type) <= RankOf(u)

\* A tie at the top between metahuman and the canonical type, won by the
\* earlier-declared metahuman.
C7_Witness ==
    /\ det_pc = "detected"
    /\ {"metahuman", "ue5_mannequin"} \subseteq Qualifying
    /\ ConfOf("metahuman") = ConfOf("ue5_mannequin")
    /\ detection.rig_type = "metahuman"

\* C8: the confidence of a signature is 0 when a required joint is absent,
\* otherwise 0.6 + 0.4 * |pattern joints present| / |pattern joints| (0.6
\* without pattern joints); so it is 0 or lies in [0.6, 1.0].
C8_ConfidenceFormula ==
    det_pc = "scored" =>
        LET R == SeqSet(sig_in.required_bones)
            P == SeqSet(sig_in.pattern_bones)
        IN  /\ IF ~(R \subseteq bone_names) THEN conf_out = 0
               ELSE IF P = {} THEN conf_out = ConfBase
               ELSE (conf_out - ConfBase) * Cardinality(P)
                        = ConfBonus * Cardinality(P \cap bone_names)
            /\ conf_out = 0 \/ (ConfBase <= conf_out /\ conf_out <= ConfScale)

\* Every required joint of the ARP signature and one of its four pattern
\* joints are present: 0.6 + 0.4 * 1/4 = 0.7.
C8_Witness ==
    /\ det_pc = "scored"
    /\ sig_in = RIG_SIGNATURES["arp"]
    /\ SeqSet(sig_in.required_bones) \subseteq bone_names
    /\ Cardinality(SeqSet(sig_in.pattern_bones) \cap bone_names) = 1
    /\ conf_out = 420

\* C9: the joint-name set made of exactly a signature's required and pattern
\* joints classifies as that signature's rig type with confidence 1.0.
C9_ExactSetClassifies ==
    det_pc = "detected" =>
        \A t \in SignedTypes :
            bone_names = SigNames(t) =>
                detection.rig_type = t /\ detection.confidence = ConfScale

C9_Witness ==
    /\ det_pc = "detected"
    /\ bone_names = SigNames("cc4")
    /\ detection.rig_type = "cc4"
    /\ detection.confidence = ConfScale

\* C10: for a rig type whose min_confidence exceeds 0.6, the joint-name set
\* made of only its required joints classifies as UNKNOWN with confidence 0.
C10_RequiredOnlyIsUnknown ==
    det_pc = "detected" =>
        \A t \in SignedTypes :
            (RIG_SIGNATURES[t].min_confidence > ConfBase /\ bone_names = RequiredSet(t))
                => detection.rig_type = "unknown" /\ detection.confidence = 0

C10_Witness ==
    /\ det_pc = "detected"
    /\ bone_names = RequiredSet("arp")
    /\ ConfOf("arp") = ConfBase
    /\ detection.rig_type = "unknown"

\* C11: a classification that matches a rig type reports that type's entry
\* of the static rest-pose table, and CUSTOM only when no type matches, also
\* when classifying a detached name set; the 16-joint Mixamo name set gives
\* MIXAMO, confidence 1.0, T_POSE.
C11_RestPoseFromTable ==
    det_pc = "detected" =>
        /\ detection.rest_pose = DetectRestPose(detection.rig_type)
        /\ detection.rest_pose = "custom" <=> detection.rig_type = "unknown"
        /\ bone_names = SeqSet(Mixamo16) =>
              /\ detection.rig_type = "mixamo"
              /\ detection.confidence = ConfScale
              /\ detection.rest_pose = "t_pose"

-----------------------------------------------------------------------------
(* Properties of convert *)

IsPrefix(s, t) == Len(s) <= Len(t) /\ \A i \in 1..Len(s) : s[i] = t[i]

Last(s) == s[Len(s)]

Contains(s, x) == \E i \in 1..Len(s) : s[i] = x

\* C1: an exception raised by any step of convert is caught once by the
\* handler of convert: the call returns a result with success = false and the
\* failure recorded in errors, and nothing escapes to the caller.
C1_ExceptionCaughtOnce ==
    /\ exc.caught <= 1
    /\ exc.escaped = None
    /\ exc.raised # None => pc \in {"except", "returned"}
    /\ (pc = "returned" /\ exc.raised # None) =>
          /\ exc.caught = 1
          /\ exc.inflight = None
          /\ ~result.success
          /\ Contains(result.errors, Message("Conversion failed", exc.raised[1]))

\* The last step, the export, raised and the call has returned.
C1_Witness ==
    /\ pc = "returned"
    /\ exc.raised # None
    /\ Len(trace) > 0
    /\ Last(trace) = "export"
    /\ ~result.success

\* The steps a run with the job's options goes through when nothing raises.
ExpectedSteps ==
    LET Taken(s) ==
            CASE s \in {"adjust", "validate_adjustment"} -> job.options.preserve_proportions
              [] s = "validate_weights"                  -> job.options.validate_weights
              [] s = "export"                            -> job.output_path # None
              [] OTHER                                   -> TRUE
    IN  SelectSeq(StepOrder, Taken)

\* C2: the steps of a run start at most once each and in the order detect,
\* capture and map, adjust (optional), transfer then binding swap, reset
\* ending with the bake, export (optional), done; none is skipped or
\* re-entered, and once a step has raised no further step starts.
C2_StagesInOrder ==
    /\ [](IsPrefix(trace, ExpectedSteps))
    /\ [][exc.raised # None => trace' = trace]_vars

\* A complete run with every optional step.
C2_Witness ==
    /\ pc = "returned"
    /\ trace = StepOrder

KindsOf(msgs) == {msgs[i].kind : i \in 1..Len(msgs)}

C4_NoPreserveSkipsAdjust ==
    ~job.options.preserve_proportions =>
        /\ ~Contains(trace, "adjust")
        /\ locals.original_positions = None
        /\ scene.heads_at_transfer # None
              => scene.heads_at_transfer[1] = CanonicalHeads(job.canonical_armature.bones)
        /\ scene.reset_branch \in {"none", "canned"}
        /\ Contains(trace, "bake") =>
              /\ scene.reset_branch = "canned"
              /\ scene.pose = job.options.target_rest_pose

C4_Witness ==
    /\ ~job.options.preserve_proportions
    /\ pc = "returned"
    /\ result.success
    /\ scene.transferred
    /\ scene.reset_branch = "canned"
    /\ scene.pose = "a_pose"
    /\ scene.bakes = 1

-----------------------------------------------------------------------------
(* Properties of validate_conversion *)

GateFlagged == Contains(validation.critical_errors, Message("Too many unmapped target bones", ""))

\* C5: for a result with a correspondence, the quality gate marks the result
\* invalid exactly when unmapped target joints / all canonical target joints
\* exceeds 0.30 (4 of 10 flagged, 2 and 3 of 10 not, all unmapped flagged).
C5_QualityGate ==
    (pc = "validated" /\ validation.given.joint_mapping # None) =>
        LET jm       == validation.given.joint_mapping[1]
            unmapped == Len(jm.unmapped_target)
            total    == Len(jm.target_positions) + Len(jm.unmapped_target)
        IN  /\ GateFlagged <=> (total > 0 /\ 10 * unmapped > 3 * total)
            /\ GateFlagged => ~validation.is_valid

\* C6: validate_conversion reports invalid for a failed result, a result
\* without classification, a result without correspondence and a result
\* with errors, whose messages it returns; the result is left as it was.
C6_ValidateConversion ==
    pc = "validated" =>
        LET given == validation.given
        IN  /\ ~given.success => ~validation.is_valid
            /\ given.rig_metadata = None => ~validation.is_valid
            /\ given.joint_mapping = None => ~validation.is_valid
            /\ given.errors # <<>> =>
                  /\ ~validation.is_valid
                  /\ \A i \in 1..Len(given.errors) :
                        Contains(validation.critical_errors, given.errors[i])
            /\ result = given

\* A result that reports success but carries an error message.
C6_Witness ==
    /\ pc = "validated"
    /\ validation.given.success
    /\ validation.given.rig_metadata # None
    /\ validation.given.joint_mapping # None
    /\ validation.given.errors # <<>>
    /\ ~validation.is_valid
    /\ result = validation.given

\* C25: in a run with validate_weights enabled every warning that
\* validate_weights produced and every merge-conflict warning of the
\* name-based transfer is among the warnings of the final result, also when
\* every vertex has a weight entry.
C25_WarningsReachResult ==
    (pc = "returned" /\ job.options.validate_weights) =>
        /\ locals.warnings # None =>
              \A i \in 1..Len(locals.warnings[1]) :
                  Contains(result.warnings, locals.warnings[1][i])
        /\ locals.transfer_stats # None =>
              \A i \in 1..Len(locals.transfer_stats[1].warnings) :
                  locals.transfer_stats[1].warnings[i].kind \in KindsOf(result.warnings)

\* C26: when convert has returned, success holds exactly if errors is
\* empty, errors has at most one entry, output_path is set only in a
\* successful run and in every successful run that was given an output
\* path, and a successful result carries the classification and the
\* correspondence.
C26_ResultShape ==
    pc = "returned" =>
        /\ result.success <=> (Len(result.errors) = 0)
        /\ Len(result.errors) <= 1
        /\ result.output_path # None => result.success
        /\ (result.success /\ job.output_path # None) => result.output_path = job.output_path
        /\ result.success => (result.rig_metadata # None /\ result.joint_mapping # None)

\* A run that was given an output path failed after the bake.
C26_Witness ==
    /\ pc = "returned"
    /\ job.output_path # None
    /\ ~result.success
    /\ Len(result.errors) = 1
    /\ Contains(trace, "bake")
    /\ result.output_path = None

\* Rig types without a table of bone patterns.
TablelessTypes == RigType \ {"arp", "cc3", "cc4", "mixamo"}

C28_PreserveAlwaysRestores ==
    job.options.preserve_proportions =>
        /\ scene.reset_branch \in {"none", "restore"}
        /\ exc.raised # Some("Unknown rest pose type")

-----------------------------------------------------------------------------
(* Properties of the matcher, the adjuster and the restore *)

\* The table of the rig type handed to create_mapping.
TableOf(m) == BONE_MAPPINGS[m.rig_type]

\* Index of the first candidate pattern of table entry e that is a source
\* joint, 0 if none is.
FirstPresent(e, names) ==
    IF \A i \in 1..Len(e.patterns) : e.patterns[i] \notin names THEN 0
    ELSE CHOOSE i \in 1..Len(e.patterns) :
            /\ e.patterns[i] \in names
            /\ \A j \in 1..(i - 1) : e.patterns[j] \notin names

\* Source joints consumed by a canonical joint: for each canonical joint of
\* the table, the first of its candidates that is a source joint.
Consumed(m) ==
    LET names == SeqSet(m.source.bones)
    IN  {TableOf(m)[i].patterns[FirstPresent(TableOf(m)[i], names)] :
            i \in {k \in 1..Len(TableOf(m)) : FirstPresent(TableOf(m)[k], names) > 0}}

\* C12: partition law: unmapped_source and the source joints consumed by a
\* canonical joint are disjoint and together are all source joints; a source
\* joint that is a later candidate of a canonical joint already matched
\* (CC_Base_Hips beside CC_Base_Hip in a CC3 rig) is in unmapped_source.
C12_PartitionLaw ==
    matcher.pc = "mapped" =>
        LET jm       == matcher.joint_mapping[1]
            unmapped == SeqSet(jm.unmapped_source)
            names    == SeqSet(matcher.source.bones)
        IN  /\ unmapped \cap Consumed(matcher) = {}
            /\ unmapped \cup Consumed(matcher) = names
            /\ (matcher.rig_type = "cc3" /\ {"CC_Base_Hip", "CC_Base_Hips"} \subseteq names)
                  => "CC_Base_Hips" \in unmapped

\* C13: each canonical joint of the table is in target_positions with the
\* position of the first of its candidates present in the source, or in
\* unmapped_target when none is present; the two are disjoint and together
\* are the canonical joints of the table.
C13_TargetsFromFirstCandidate ==
    matcher.pc = "mapped" =>
        LET jm       == matcher.joint_mapping[1]
            names    == SeqSet(matcher.source.bones)
            table    == TableOf(matcher)
            mapped   == Keys(jm.target_positions)
            unmapped == SeqSet(jm.unmapped_target)
        IN  /\ \A i \in 1..Len(table) :
                  LET e == table[i]
                      f == FirstPresent(e, names)
                  IN  IF f = 0
                      THEN e.canonical \in unmapped /\ e.canonical \notin mapped
                      ELSE /\ e.canonical \in mapped /\ e.canonical \notin unmapped
                           /\ Lookup(jm.target_positions, e.canonical).position
                                  = matcher.source.heads[e.patterns[f]]
            /\ mapped \cap unmapped = {}
            /\ mapped \cup unmapped = {table[i].canonical : i \in 1..Len(table)}
            /\ Len(jm.target_positions) = Cardinality(mapped)
            /\ Len(jm.unmapped_target) = Cardinality(unmapped)

\* A CC3 source with both candidates of pelvis: pelvis sits where
\* CC_Base_Hip, the first candidate, is.
C13_Witness ==
    /\ matcher.pc = "mapped"
    /\ matcher.rig_type = "cc3"
    /\ {"CC_Base_Hip", "CC_Base_Hips"} \subseteq SeqSet(matcher.source.bones)
    /\ matcher.source.heads["CC_Base_Hip"] # matcher.source.heads["CC_Base_Hips"]
    /\ Lookup(matcher.joint_mapping[1].target_positions, "pelvis").position
          = matcher.source.heads["CC_Base_Hip"]
    /\ "spine_02" \in SeqSet(matcher.joint_mapping[1].unmapped_target)

\* The correspondence the Mixamo scenario names: canonical joint, source joint.
MixamoPairs ==
    { <<"pelvis", "Hips">>, <<"spine_01", "Spine">>,
      <<"upperarm_l", "LeftArm">>, <<"upperarm_r", "RightArm">>,
      <<"lowerarm_l", "LeftForeArm">>, <<"lowerarm_r", "RightForeArm">>,
      <<"hand_l", "LeftHand">>, <<"hand_r", "RightHand">>,
      <<"thigh_l", "LeftUpLeg">>, <<"thigh_r", "RightUpLeg">>,
      <<"calf_l", "LeftLeg">>, <<"calf_r", "RightLeg">>,
      <<"foot_l", "LeftFoot">>, <<"foot_r", "RightFoot">>,
      <<"neck_01", "Neck">>, <<"head", "Head">> }

MixamoScenario ==
    /\ matcher.pc = "mapped"
    /\ matcher.rig_type = "mixamo"
    /\ matcher.source.bones = Mixamo16

MixamoPairsMapped ==
    \A pr \in MixamoPairs :
        /\ pr[1] \in Keys(matcher.joint_mapping[1].target_positions)
        /\ Lookup(matcher.joint_mapping[1].target_positions, pr[1]).position
              = matcher.source.heads[pr[2]]

MixamoTableJoints ==
    {BONE_MAPPINGS["mixamo"][i].canonical : i \in 1..Len(BONE_MAPPINGS["mixamo"])}

\* C14 as stated: in the Mixamo scenario pelvis comes from Hips, upperarm_l
\* from LeftArm and so on, and unmapped_target holds only canonical joints
\* absent from the Mixamo table; spine_03, listed in the table, is not in it.
C14_MixamoScenario ==
    MixamoScenario =>
        /\ MixamoPairsMapped
        /\ SeqSet(matcher.joint_mapping[1].unmapped_target) \cap MixamoTableJoints = {}
        /\ "spine_03" \notin SeqSet(matcher.joint_mapping[1].unmapped_target)

\* C14, amended: in the Mixamo scenario pelvis comes from Hips, upperarm_l
\* from LeftArm and so on, and unmapped_target holds exactly the canonical
\* joints that the Mixamo table lists and whose source joint the set lacks,
\* spine_02 and spine_03; a canonical joint the table never lists, such as
\* clavicle_l, is neither mapped nor in unmapped_target.
C14_MixamoScenarioAmended ==
    MixamoScenario =>
        /\ MixamoPairsMapped
        /\ matcher.joint_mapping[1].unmapped_target = <<"spine_02", "spine_03">>
        /\ Keys(matcher.joint_mapping[1].target_positions)
              = {pr[1] : pr \in MixamoPairs}
        /\ \A c \in {"clavicle_l", "clavicle_r"} :
              /\ c \notin SeqSet(matcher.joint_mapping[1].unmapped_target)
              /\ c \notin Keys(matcher.joint_mapping[1].target_positions)

C14_Witness ==
    /\ MixamoScenario
    /\ Len(matcher.joint_mapping[1].target_positions) = 16
    /\ Lookup(matcher.joint_mapping[1].target_positions, "upperarm_l").position
          = matcher.source.heads["LeftArm"]
    /\ "spine_03" \in SeqSet(matcher.joint_mapping[1].unmapped_target)

\* The source of the capture is the canonical skeleton itself and the rig
\* type is the canonical one.
RoundTrip ==
    /\ matcher.pc # "idle"
    /\ matcher.source.bones = matcher.initial.bones
    /\ matcher.source.heads = matcher.initial.heads
    /\ matcher.rig_type = "ue5_mannequin"

\* C15: round trip: capturing the canonical skeleton's own positions,
\* building the correspondence of the canonical rig type against itself and
\* adjusting with it succeeds and leaves every joint head where it was.
C15_RoundTripIdentity ==
    RoundTrip =>
        /\ matcher.pc # "raised"
        /\ matcher.pc = "adjusted" => matcher.armature.heads = matcher.initial.heads

\* C20: the restore puts the head of every saved joint of the skeleton at
\* its saved position and moves the tail by the same offset, so the bone's
\* head-to-tail vector is as before the reset; after adjust_to_match and
\* the restore every adjusted joint's head is where it was before the
\* adjustment.
C20_RestoreUndoesAdjust ==
    matcher.pc = "restored" =>
        LET op     == matcher.original_positions[1]
            now    == matcher.armature
            before == matcher.at_reset
            first  == matcher.initial
        IN  /\ \A b \in Keys(op) \cap SeqSet(now.bones) :
                  /\ now.heads[b] = Lookup(op, b).position
                  /\ now.tails[b] = before.tails[b] + (Lookup(op, b).position - before.heads[b])
                  /\ now.tails[b] - now.heads[b] = before.tails[b] - before.heads[b]
            /\ \A b \in SeqSet(now.bones) :
                  before.heads[b] # first.heads[b] => b \in Keys(op)
            /\ now.heads = first.heads

\* pelvis was moved by the adjustment and is back after the restore.
C20_Witness ==
    /\ matcher.pc = "restored"
    /\ "pelvis" \in Keys(matcher.original_positions[1])
    /\ matcher.at_reset.heads["pelvis"] # matcher.initial.heads["pelvis"]
    /\ matcher.armature.heads["pelvis"] = matcher.initial.heads["pelvis"]
    /\ matcher.armature.tails["pelvis"] # matcher.at_reset.tails["pelvis"]

\* C21: adjust_to_match returns a map whose keys are exactly the canonical
\* joints present both in the target positions and in the skeleton, each
\* value the joint's head before the adjustment; afterwards each such
\* joint's head is its target position and its bone length is the length
\* before the adjustment; the other joints are not moved.
C21_AdjustKeepsLength ==
    matcher.pc = "adjusted" =>
        LET tp     == matcher.joint_mapping[1].target_positions
            op     == matcher.original_positions[1]
            now    == matcher.armature
            first  == matcher.initial
            both   == Keys(tp) \cap SeqSet(first.bones)
        IN  /\ Keys(op) = both
            /\ Len(op) = Cardinality(both)
            /\ \A b \in both :
                  /\ Lookup(op, b).position = first.heads[b]
                  /\ now.heads[b] = Lookup(tp, b).position
                  /\ Abs(now.tails[b] - now.heads[b]) = Abs(first.tails[b] - first.heads[b])
            /\ \A b \in SeqSet(first.bones) \ both :
                  /\ now.heads[b] = first.heads[b]
                  /\ now.tails[b] = first.tails[b]

-----------------------------------------------------------------------------
(* Properties of transfer_weights *)

Unique(s) == Cardinality(SeqSet(s)) = Len(s)

\* C16: in a hybrid transfer the name pass has ended before the proximity
\* pass starts, and the proximity pass only adds groups, none under a name
\* a group already carries after the name pass; the names of the weight
\* groups of the mesh stay without repeats through any transfer.
C16_ProximityFillsGaps ==
    /\ [](Unique(xfer.vertex_groups))
    /\ [](xfer.method = "hybrid" =>
             /\ IsPrefix(xfer.passes, <<"name", "proximity">>)
             /\ xfer.pc = "done" => xfer.passes = <<"name", "proximity">>)
    /\ [][xfer'.passes = Append(xfer.passes, "proximity") =>
             /\ xfer.method = "hybrid" => xfer.vertex_groups = xfer.after_name
             /\ IsPrefix(xfer.vertex_groups, xfer'.vertex_groups)
             /\ \A i \in (Len(xfer.vertex_groups) + 1)..Len(xfer'.vertex_groups) :
                   xfer'.vertex_groups[i] \notin SeqSet(xfer.vertex_groups)]_vars

\* A hybrid transfer whose name pass renamed a group and whose proximity
\* pass met two vertices: one at a joint without group, one at a joint
\* whose group was there already.
C16_Witness ==
    /\ xfer.pc = "done"
    /\ xfer.method = "hybrid"
    /\ xfer.stats.vertex_groups_renamed = 1
    /\ xfer.stats.vertex_groups_created = 1
    /\ Len(xfer.vertices) = 2
    /\ xfer.vertices[1].co # xfer.vertices[2].co
    /\ Len(xfer.vertex_groups) = Len(xfer.after_name) + 1
    /\ xfer.after_name # xfer.initial_groups

\* The canonical joint that consumed source joint s.
CanonicalOf(m, s) ==
    LET names == SeqSet(m.source.bones)
        i == CHOOSE k \in 1..Len(TableOf(m)) :
                /\ FirstPresent(TableOf(m)[k], names) > 0
                /\ TableOf(m)[k].patterns[FirstPresent(TableOf(m)[k], names)] = s
    IN  TableOf(m)[i].canonical

\* C17: after the name pass every weight group named after a source joint
\* that the correspondence mapped to a canonical joint carries that
\* canonical joint's name, also when two source joints share a position;
\* when a group of the canonical name was there already, the group keeps
\* its name, no group is merged away and a warning is recorded.
C17_RenamedToCanonical ==
    Contains(xfer.passes, "name") =>
        /\ Len(xfer.after_name) = Len(xfer.initial_groups)
        /\ \A i \in 1..Len(xfer.initial_groups) :
              LET s == xfer.initial_groups[i]
              IN  s \in Consumed(xfer) =>
                     LET c == CanonicalOf(xfer, s)
                     IN  IF c \in SeqSet(xfer.initial_groups)
                         THEN /\ xfer.after_name[i] = s
                              /\ Contains(xfer.stats.warnings,
                                          [kind |-> "already exists", group |-> c])
                         ELSE xfer.after_name[i] = c

-----------------------------------------------------------------------------
(* Properties of redistribute_weights *)

\* Every joint of the chain is a joint of the armature, so each has a
\* position.
ChainInArmature == SeqSet(redist.bone_chain) \subseteq redist.armature_bones

\* The weights of vertex v over the joints of the chain are fractions of one
\* denominator whose numerators add up to it.
ChainSumsToOne(v) ==
    LET chain == redist.bone_chain
        w     == redist.vertices[v].weights
    IN  /\ SeqSet(chain) \subseteq DOMAIN w
        /\ w[chain[1]].den > 0
        /\ \A i \in 1..Len(chain) : w[chain[i]].den = w[chain[1]].den
        /\ SumSeq([i \in 1..Len(chain) |-> w[chain[i]].num]) = w[chain[1]].den

\* The weight of vertex v for joint j is what the call computed from the
\* distances alone, whatever the vertex had before.
ReplacesPrior(v, j) ==
    LET chain == redist.bone_chain
        raws  == [i \in 1..Len(chain) |->
                     RawWeight(redist.vertices[v].dist[chain[i]], redist.falloff_exponent)]
    IN  redist.vertices[v].weights[j] = NormalizedWeights(raws)[IndexIn(chain, j)]

\* C18: after redistribute_weights, for any falloff exponent > 0 and a
\* chain whose joints all have a position, the weights of every vertex over
\* the joints of the chain sum to 1, each being the newly computed value in
\* place of the vertex's former one.
C18_WeightsSumToOne ==
    (redist.pc # "input" /\ ChainInArmature) =>
        /\ redist.raised = None
        /\ \A v \in 1..Len(redist.vertices) :
              /\ ChainSumsToOne(v)
              /\ \A j \in SeqSet(redist.bone_chain) : ReplacesPrior(v, j)

Equidistant(v) ==
    \A i, j \in SeqSet(redist.bone_chain) :
        redist.vertices[v].dist[i] = redist.vertices[v].dist[j]

\* C19: after redistribute_weights a vertex equally far from all N joints
\* of the chain has weight exactly 1/N for each of them, above the 1e-3
\* cutoff as well as at or below it.
C19_EquidistantShares ==
    (redist.pc # "input" /\ ChainInArmature) =>
        \A v \in 1..Len(redist.vertices) :
            Equidistant(v) =>
                \A j \in SeqSet(redist.bone_chain) :
                    /\ j \in DOMAIN redist.vertices[v].weights
                    /\ redist.vertices[v].weights[j].den > 0
                    /\ redist.vertices[v].weights[j].num * Len(redist.bone_chain)
                          = redist.vertices[v].weights[j].den

\* C29: redistribute_weights gives each joint of the chain the weight
\* computed from that joint's own position: for every vertex and every
\* chain joint the skeleton has, the weight in the joint's group is the
\* normalized inverse-distance weight of the vertex to that joint, and no
\* weight is written for a chain joint the skeleton lacks, also when a
\* joint named earlier in the chain is absent.
C29_WeightsFromOwnPosition ==
    redist.pc = "done" =>
        LET chain         == redist.bone_chain
            InArmature(j) == j \in redist.armature_bones
            present       == SelectSeq(chain, InArmature)
        IN  \A v \in 1..Len(redist.vertices) :
               LET w     == redist.vertices[v].weights
                   prior == redist.initial[v].weights
                   raws  == [i \in 1..Len(present) |->
                                RawWeight(redist.vertices[v].dist[present[i]],
                                          redist.falloff_exponent)]
               IN  \A j \in SeqSet(chain) :
                      IF InArmature(j)
                      THEN /\ j \in DOMAIN w
                           /\ w[j] = NormalizedWeights(raws)[IndexIn(present, j)]
                      ELSE /\ (j \in DOMAIN w) = (j \in DOMAIN prior)
                           /\ j \in DOMAIN w => w[j] = prior[j]

-----------------------------------------------------------------------------
(* Properties of the conversion service *)

Left(j) == service.threads[j].pc \in {"returned", "raised", "responded"}

\* C22: per-job temporary storage is released on every exit path of
\* ConversionService.convert: once convert has returned or raised (input
\* staging failed, the backend exited non-zero, artifact dispatch raised,
\* or the job completed) the job's temporary directory no longer exists.
C22_TempReleased ==
    service.pc = "serving" =>
        \A j \in ServiceJobs :
            /\ Left(j) => service.temp[j] = None
            /\ service.threads[j].pc = "new" => service.temp[j] = None

\* One job failed while dispatching an artifact out of its output staging,
\* the other because its backend exited non-zero.
C22_Witness ==
    /\ service.pc = "serving"
    /\ \E j, k \in ServiceJobs :
          /\ service.threads[j].pc = "raised"
          /\ service.threads[j].completed # None
          /\ service.threads[j].completed[1].returncode = 0
          /\ service.threads[j].raised \in {Some("OSError"), Some("ClientError")}
          /\ service.threads[k].raised = Some("BlenderConversionError")
          /\ service.temp[j] = None /\ service.temp[k] = None

\* The job has been answered after its backend ran.
Answered(j) ==
    /\ service.threads[j].pc = "responded"
    /\ service.threads[j].completed # None

\* The response of job j is COMPLETED with one artifact per .glb file of the
\* output directory, each stored (in work_dir/artifacts when no output URI
\* is configured), and the captured lines of standard output in the logs.
Completed(j) ==
    LET th == service.threads[j]
    IN  /\ th.raised = None
        /\ th.response # None
        /\ th.response[1].status = "COMPLETED"
        /\ th.response[1].artifacts =
              [i \in 1..Len(th.files) |-> TargetOf(th.destination_uri, j, th.files[i])]
        /\ \A i \in 1..Len(th.files) :
              /\ th.response[1].artifacts[i] \in {f.uri : f \in service.store}
              /\ (th.request.output_uri = None /\ service.settings.output_bucket = None)
                    => th.response[1].artifacts[i].dir = "work_dir/artifacts"
        /\ \A i \in 1..Len(th.completed[1].stdout) :
              Contains(th.response[1].logs, th.completed[1].stdout[i])
        /\ th.status_code = 202

\* Job j failed with BlenderConversionError, collected no artifact and was
\* answered with a server fault.
Failed(j) ==
    LET th == service.threads[j]
    IN  /\ th.raised = Some("BlenderConversionError")
        /\ th.response = None
        /\ th.artifacts = <<>>
        /\ \A f \in service.store : f.content # j
        /\ th.status_code = 500

C30_JobsDoNotInterfere ==
    (service.pc = "serving" /\ service.settings.output_bucket = None) =>
        \A j \in ServiceJobs :
            (service.threads[j].response # None
                /\ service.threads[j].request.output_uri = None) =>
                \A i \in 1..Len(service.threads[j].response[1].artifacts) :
                    [uri |-> service.threads[j].response[1].artifacts[i], content |-> j]
                        \in service.store

====
